---- MODULE Spec2Model ----
(***************************************************************************)
(* Model of the storage-abstraction layer of qdrant-service: the           *)
(* QdrantService methods of src/qdrant-service/src/qdrant.rs, the handlers *)
(* of handlers.rs that add behaviour of their own, and the start-up        *)
(* provisioning of main.rs, against a model of the vector engine they      *)
(* call.                                                                   *)
(*                                                                         *)
(* Every await of an engine call is one step of the calling process, so    *)
(* that concurrent requests interleave exactly at the engine calls.        *)
(***************************************************************************)
EXTENDS Naturals, Integers, Sequences, FiniteSets, TLC

(***************************************************************************)
(* Rust's Option<T>: None is the empty sequence, Some(x) is <<x>>.         *)
(***************************************************************************)
None == <<>>
Some(x) == <<x>>
IsSome(o) == o # <<>>
Unwrap(o) == o[1]

(***************************************************************************)
(* AppError (error.rs) and the Ok results.                                 *)
(***************************************************************************)
Ok == [status |-> "Ok"]
OkValue(v) == [status |-> "Ok", value |-> v]
InvalidRequest == [status |-> "InvalidRequest"]
QdrantError == [status |-> "Qdrant"]
NotFound == [status |-> "NotFound"]
Internal == [status |-> "Internal"]

(***************************************************************************)
(* Bounds of the model.                                                    *)
(***************************************************************************)
MaxOwner == 2
MaxLimit == 2
MaxBatchLen == 2
ScrollPageLimit == 1
MaxUpserts == 3
MaxSearches == 1
MaxDeletes == 1
MaxRequests == 4
MaxNamespaceLen == 3

(***************************************************************************)
(* Program constants.                                                      *)
(***************************************************************************)
DocVectorLen == 1024
MaxBatchPoints == 100
DefaultVectorDimension == 1024
TestVectorDimension == 128

Owners == 1..MaxOwner
Limits == 1..MaxLimit

(***************************************************************************)
(* A Vec<f32> is modelled by its length and a tag that stands for its      *)
(* direction: two vectors with the same tag are parallel.                  *)
(***************************************************************************)
Vec(len, tag) == [len |-> len, tag |-> tag]
VectorLens == {TestVectorDimension, DefaultVectorDimension}

(***************************************************************************)
(* Strings that the code inspects character by character are sequences of  *)
(* one-character strings.                                                  *)
(***************************************************************************)
collection_name == <<"u","s","e","r","_","m","e","m","o","r","i","e","s">>
documents_collection_name == <<"u","s","e","r","_","d","o","c","u","m","e","n","t","s">>

Digits == {"0","1","2","3","4","5","6","7","8","9"}
LowerLetters == {"a","b","c","d","e","f","g","h","i","j","k","l","m",
                 "n","o","p","q","r","s","t","u","v","w","x","y","z"}
UpperLetters == {"A","B","C","D","E","F","G","H","I","J","K","L","M",
                 "N","O","P","Q","R","S","T","U","V","W","X","Y","Z"}

is_ascii_alphanumeric(ch) == ch \in Digits \cup LowerLetters \cup UpperLetters

LowerOf == [ch \in UpperLetters |->
              CASE ch = "A" -> "a" [] ch = "B" -> "b" [] ch = "C" -> "c"
                [] ch = "D" -> "d" [] ch = "E" -> "e" [] ch = "F" -> "f"
                [] ch = "G" -> "g" [] ch = "H" -> "h" [] ch = "I" -> "i"
                [] ch = "J" -> "j" [] ch = "K" -> "k" [] ch = "L" -> "l"
                [] ch = "M" -> "m" [] ch = "N" -> "n" [] ch = "O" -> "o"
                [] ch = "P" -> "p" [] ch = "Q" -> "q" [] ch = "R" -> "r"
                [] ch = "S" -> "s" [] ch = "T" -> "t" [] ch = "U" -> "u"
                [] ch = "V" -> "v" [] ch = "W" -> "w" [] ch = "X" -> "x"
                [] ch = "Y" -> "y" [] OTHER -> "z"]

to_ascii_lowercase(ch) == IF ch \in UpperLetters THEN LowerOf[ch] ELSE ch

RECURSIVE TrimStart(_)
TrimStart(s) == IF s # <<>> /\ Head(s) = "_" THEN TrimStart(Tail(s)) ELSE s

RECURSIVE TrimEnd(_)
TrimEnd(s) ==
  IF s # <<>> /\ s[Len(s)] = "_" THEN TrimEnd(SubSeq(s, 1, Len(s) - 1)) ELSE s

\* a trim of the leading '_' only
trim_start_matches(s) == TrimStart(s)

trim_matches(s) == TrimEnd(TrimStart(s))

RECURSIVE SanitizeChars(_)
SanitizeChars(value) ==
  IF value = <<>> THEN <<>>
  ELSE LET ch == Head(value)
           rest == SanitizeChars(Tail(value))
       IN IF is_ascii_alphanumeric(ch) THEN <<to_ascii_lowercase(ch)>> \o rest
          ELSE IF ch = "-" \/ ch = "_" THEN <<"_">> \o rest
          ELSE rest

sanitize_namespace(value) == trim_matches(SanitizeChars(value))

get_collection_name(namespace) ==
  LET ns == IF IsSome(namespace)
            THEN LET sanitized == sanitize_namespace(Unwrap(namespace))
                 IN IF sanitized = <<>> THEN None ELSE Some(sanitized)
            ELSE None
  IN IF IsSome(ns) THEN collection_name \o <<"_">> \o Unwrap(ns)
     ELSE collection_name


(***************************************************************************)
(* Point Identity Mapper.  string_to_point_id hashes the string id with    *)
(* DefaultHasher (fixed keys) into u64.  It is deterministic and, mapping  *)
(* unboundedly many strings to 2^64 values, not injective: of the string   *)
(* ids of the model the "_a" and "_c" ids share one native id, the "_b"     *)
(* ids have another and the "_d" id a third.                               *)
(***************************************************************************)
MemIds == {"mem_1_a", "mem_1_b", "mem_2_c"}
DocIds == {"doc_1_a", "doc_1_b", "doc_2_c"}

string_to_point_id(point_id) ==
  IF point_id \in {"mem_1_a", "mem_2_c", "doc_1_a", "doc_2_c"} THEN 17
  ELSE IF point_id = "doc_2_d" THEN 99 ELSE 42

(***************************************************************************)
(* Payload Codec.  A stored payload is a map from field names to values.   *)
(* MemoryPayload and DocumentPayload are the typed records of models.rs;   *)
(* message_id is an Option that serde skips when it is None and reads as   *)
(* None when the key is absent.                                            *)
(***************************************************************************)
MemoryFields ==
  {"user_id", "category", "key", "value", "source", "message_id",
   "created", "updated", "active"}
MemoryRequired == MemoryFields \ {"message_id"}

MemoryPayload(user_id, category, value, message_id, active) ==
  [user_id |-> user_id, category |-> category, key |-> "name",
   value |-> value, source |-> "auto_detected", message_id |-> message_id,
   created |-> 1769034136, updated |-> 1769034136, active |-> active]

DocumentFields ==
  {"user_id", "file_id", "group_key", "file_type", "chunk_index",
   "start_line", "end_line", "text", "created"}

DocumentPayload(user_id, file_id, group_key, text) ==
  [user_id |-> user_id, file_id |-> file_id, group_key |-> group_key,
   file_type |-> 1, chunk_index |-> 0, start_line |-> 1, end_line |-> 9,
   text |-> text, created |-> 1769034136]

\* a serialization that writes message_id even when it is None
MemoryToValueAlways(payload) ==
  [k \in MemoryFields |->
     IF k = "message_id"
     THEN (IF IsSome(payload.message_id) THEN Unwrap(payload.message_id) ELSE 0)
     ELSE payload[k]]

\* serde_json::to_value(&payload) of a MemoryPayload
MemoryToValue(payload) ==
  [k \in (IF IsSome(payload.message_id) THEN MemoryFields ELSE MemoryRequired)
     |-> IF k = "message_id" THEN Unwrap(payload.message_id) ELSE payload[k]]

\* serde_json::to_value(payload) of a DocumentPayload
DocumentToValue(payload) == [k \in DocumentFields |-> payload[k]]

\* payload_map.insert("_point_id", point_id)
InsertPointId(payload_map, point_id) ==
  [k \in DOMAIN payload_map \cup {"_point_id"} |->
     IF k = "_point_id" THEN point_id ELSE payload_map[k]]

\* serde_json::from_value::<MemoryPayload>: unknown keys are ignored, a
\* missing required key is an error, a missing message_id is None.
MemoryFromValue(payload_map) ==
  IF MemoryRequired \subseteq DOMAIN payload_map
  THEN OkValue([k \in MemoryFields |->
                  IF k = "message_id"
                  THEN (IF k \in DOMAIN payload_map
                        THEN Some(payload_map[k]) ELSE None)
                  ELSE payload_map[k]])
  ELSE Internal

\* serde_json::from_value::<DocumentPayload>
DocumentFromValue(payload_map) ==
  IF DocumentFields \subseteq DOMAIN payload_map
  THEN OkValue([k \in DocumentFields |-> payload_map[k]])
  ELSE Internal

\* PointStruct::new(PointId::Num(string_to_point_id(point_id)), vector, payload)
MemoryPoint(point_id, vector, payload) ==
  [id |-> string_to_point_id(point_id), vector |-> vector,
   payload |-> InsertPointId(MemoryToValue(payload), point_id)]

DocumentPoint(point_id, vector, payload) ==
  [id |-> string_to_point_id(point_id), vector |-> vector,
   payload |-> InsertPointId(DocumentToValue(payload), point_id)]

(***************************************************************************)
(* Filters: a Filter::must is the list of its Condition::matches(key,      *)
(* value).                                                                 *)
(***************************************************************************)
Condition(key, value) == [key |-> key, value |-> value]

\* the filter without the condition on active
MemoryFilterAnyActive(user_id, category) ==
  <<Condition("user_id", user_id)>>
    \o (IF IsSome(category) THEN <<Condition("category", Unwrap(category))>>
        ELSE <<>>)

\* search_memories / scroll_memories: user_id, active == true, category?
MemoryFilter(user_id, category) ==
  <<Condition("user_id", user_id), Condition("active", TRUE)>>
    \o (IF IsSome(category) THEN <<Condition("category", Unwrap(category))>>
        ELSE <<>>)

\* search_documents: user_id, group_key?
DocumentSearchFilter(user_id, group_key) ==
  <<Condition("user_id", user_id)>>
    \o (IF IsSome(group_key) THEN <<Condition("group_key", Unwrap(group_key))>>
        ELSE <<>>)

\* the filter without the condition on user_id
FileFilterAnyOwner(user_id, file_id) == <<Condition("file_id", file_id)>>

FileFilter(user_id, file_id) ==
  <<Condition("user_id", user_id), Condition("file_id", file_id)>>

\* the group filter without the condition on user_id
GroupKeyFilterAnyOwner(user_id, group_key) ==
  <<Condition("group_key", group_key)>>

GroupKeyFilter(user_id, group_key) ==
  <<Condition("user_id", user_id), Condition("group_key", group_key)>>

UserFilter(user_id) == <<Condition("user_id", user_id)>>

(***************************************************************************)
(* The vector engine, the external collaborator of section 6 of the        *)
(* specification.  Its state is a map from the names of the existing       *)
(* collections to their vector size, field indexes and points; each        *)
(* operation is atomic and answers [ok |-> FALSE] without effect when it   *)
(* is refused.                                                             *)
(***************************************************************************)
NoPoints == [id \in {} |-> 0]
Refused(e) == [ok |-> FALSE, engine |-> e]
Matches(payload, filter) ==
  \A i \in 1..Len(filter) :
    filter[i].key \in DOMAIN payload /\ payload[filter[i].key] = filter[i].value

\* cosine similarity in percent
Score(query, vector) == IF query.tag = vector.tag THEN 100 ELSE 40

RECURSIVE Ascending(_)
Ascending(ids) ==
  IF ids = {} THEN <<>>
  ELSE LET m == CHOOSE x \in ids : \A y \in ids : x <= y
       IN <<m>> \o Ascending(ids \ {m})

RECURSIVE ByScore(_, _, _)
ByScore(ids, points, query) ==
  IF ids = {} THEN <<>>
  ELSE LET best == CHOOSE x \in ids : \A y \in ids :
                     \/ Score(query, points[x].vector) > Score(query, points[y].vector)
                     \/ /\ Score(query, points[x].vector) = Score(query, points[y].vector)
                        /\ x <= y
       IN <<best>> \o ByScore(ids \ {best}, points, query)

Take(s, n) == SubSeq(s, 1, IF Len(s) < n THEN Len(s) ELSE n)

list_collections(e) == [ok |-> TRUE, engine |-> e, collections |-> DOMAIN e]

create_collection(e, name, size) ==
  IF name \in DOMAIN e THEN Refused(e)
  ELSE [ok |-> TRUE,
        engine |-> [c \in DOMAIN e \cup {name} |->
                      IF c = name
                      THEN [size |-> size, indexes |-> {}, points |-> NoPoints]
                      ELSE e[c]]]

create_field_index(e, name, field) ==
  IF name \notin DOMAIN e THEN Refused(e)
  ELSE [ok |-> TRUE,
        engine |-> [e EXCEPT ![name].indexes = @ \cup {field}]]

upsert_points(e, name, point) ==
  IF name \notin DOMAIN e \/ point.vector.len # e[name].size THEN Refused(e)
  ELSE [ok |-> TRUE,
        engine |-> [e EXCEPT ![name].points =
                      [id \in DOMAIN @ \cup {point.id} |->
                         IF id = point.id
                         THEN [vector |-> point.vector, payload |-> point.payload]
                         ELSE @[id]]]]

get_points(e, name, id, with_vectors) ==
  IF name \notin DOMAIN e THEN Refused(e)
  ELSE [ok |-> TRUE, engine |-> e,
        result |-> IF id \in DOMAIN e[name].points
                   THEN <<[id |-> id, payload |-> e[name].points[id].payload,
                           vectors |-> IF with_vectors
                                       THEN Some(e[name].points[id].vector)
                                       ELSE None]>>
                   ELSE <<>>]

delete_points_ids(e, name, ids) ==
  IF name \notin DOMAIN e THEN Refused(e)
  ELSE [ok |-> TRUE,
        engine |-> [e EXCEPT ![name].points =
                      [id \in DOMAIN @ \ ids |-> @[id]]]]

delete_points_filter(e, name, filter) ==
  IF name \notin DOMAIN e THEN Refused(e)
  ELSE [ok |-> TRUE,
        engine |-> [e EXCEPT ![name].points =
                      [id \in {i \in DOMAIN @ : ~Matches(@[i].payload, filter)}
                         |-> @[id]]]]

\* a set_payload that patches the first matching point only
set_payload_first(e, name, filter, patch) ==
  IF name \notin DOMAIN e THEN Refused(e)
  ELSE LET hit == {i \in DOMAIN e[name].points :
                     Matches(e[name].points[i].payload, filter)}
       IN [ok |-> TRUE,
           engine |-> [e EXCEPT ![name].points =
                         [id \in DOMAIN @ |->
                            IF id \in hit /\ \A j \in hit : id <= j
                            THEN [@[id] EXCEPT !.payload =
                                    [k \in DOMAIN @ \cup DOMAIN patch |->
                                       IF k \in DOMAIN patch THEN patch[k]
                                       ELSE @[k]]]
                            ELSE @[id]]]]

set_payload(e, name, filter, patch) ==
  IF name \notin DOMAIN e THEN Refused(e)
  ELSE [ok |-> TRUE,
        engine |-> [e EXCEPT ![name].points =
                      [id \in DOMAIN @ |->
                         IF Matches(@[id].payload, filter)
                         THEN [@[id] EXCEPT !.payload =
                                 [k \in DOMAIN @ \cup DOMAIN patch |->
                                    IF k \in DOMAIN patch THEN patch[k] ELSE @[k]]]
                         ELSE @[id]]]]

search_points(e, name, query, limit, filter, score_threshold) ==
  IF name \notin DOMAIN e \/ query.len # e[name].size THEN Refused(e)
  ELSE LET pts == e[name].points
           hits == {id \in DOMAIN pts :
                      /\ Matches(pts[id].payload, filter)
                      /\ Score(query, pts[id].vector) >= score_threshold}
           ranked == Take(ByScore(hits, pts, query), limit)
       IN [ok |-> TRUE, engine |-> e,
           result |-> [i \in 1..Len(ranked) |->
                         [id |-> ranked[i], payload |-> pts[ranked[i]].payload,
                          score |-> Score(query, pts[ranked[i]].vector)]]]

\* scroll: the matching points in ascending id order from the offset on, at
\* most limit of them, and the id of the next one when there is one
scroll(e, name, filter, limit, offset) ==
  IF name \notin DOMAIN e THEN Refused(e)
  ELSE LET pts == e[name].points
           hits == {id \in DOMAIN pts :
                      /\ Matches(pts[id].payload, filter)
                      /\ (IsSome(offset) => id >= Unwrap(offset))}
           ordered == Ascending(hits)
           page == Take(ordered, limit)
       IN [ok |-> TRUE, engine |-> e,
           result |-> [i \in 1..Len(page) |->
                         [id |-> page[i], payload |-> pts[page[i]].payload]],
           next_page_offset |-> IF Len(ordered) > Len(page)
                                THEN Some(ordered[Len(page) + 1]) ELSE None]


(***************************************************************************)
(* State.                                                                  *)
(*   vector_dimension  Config::vector_dimension of the running process     *)
(*   engine            the vector engine's collections                     *)
(*   engine_up         whether the engine answers calls                    *)
(*   pc, frame         position and locals of main and of each request     *)
(*                     task                                                *)
(*   calls             the engine calls a process has issued for its       *)
(*                     current request, in order                           *)
(*   resp              the response of a finished request, until the       *)
(*                     client has taken it                                 *)
(*   stats             StatsTracker's counters                             *)
(*   metrics           MetricsState's counters requests_total and          *)
(*                     requests_failed                                     *)
(*   daily             daily_stats_task: its position, the index of the    *)
(*                     counter its get_snapshot or reset is at, and its    *)
(*                     snapshot                                            *)
(*   ledger            history of the counters of the running process:     *)
(*                     counted, all increments; since, the increments of   *)
(*                     each counter after it was last set to 0; reported,  *)
(*                     the sum of the snapshots sent                       *)
(*   deleted           history: the (collection, string id) pairs whose    *)
(*                     memory was deleted and not upserted since           *)
(*   reassigned        history: the last update_document_group_key that    *)
(*                     succeeded, with the engine before and after it,     *)
(*                     until another request changes the engine            *)
(***************************************************************************)
VARIABLES vector_dimension, engine, engine_up, pc, frame, calls, resp, stats,
          metrics, daily, ledger, deleted, reassigned

vars == <<vector_dimension, engine, engine_up, pc, frame, calls, resp, stats,
          metrics, daily, ledger, deleted, reassigned>>

Tasks == {"t1", "t2"}
Procs == Tasks \cup {"main"}

\* StatsTracker::new and the task before its first report
NoCounts == [upserts |-> 0, searches |-> 0, deletes |-> 0]
Counters == <<"upserts", "searches", "deletes">>
Sleeping == [pc |-> "sleep", i |-> 1, snapshot |-> NoCounts]
\* MetricsState::new
NoRequests == [requests_total |-> 0, requests_failed |-> 0]

Idle == [op |-> "idle"]
NoResp == [op |-> "none"]
IndexFields == <<"user_id", "file_id", "group_key">>
MemoryEnsure(name) == [coll |-> name, docs |-> FALSE, idx |-> 0]
DocumentsEnsure(name) == [coll |-> name, docs |-> TRUE, idx |-> 0]
MainFrame == [op |-> "main", ens |-> MemoryEnsure(collection_name)]

\* an engine call: refused while the engine is unreachable
Call(r) == IF engine_up THEN r ELSE Refused(engine)

Set(p, newpc, fr, cl, rs, e2, st) ==
  /\ pc' = [pc EXCEPT ![p] = newpc]
  /\ frame' = [frame EXCEPT ![p] = fr]
  /\ calls' = [calls EXCEPT ![p] = cl]
  /\ resp' = [resp EXCEPT ![p] = rs]
  /\ engine' = e2
  /\ stats' = st
  /\ ledger' = [ledger EXCEPT
                  !.counted = [k \in DOMAIN @ |-> @[k] + st[k] - stats[k]],
                  !.since = [k \in DOMAIN @ |-> @[k] + st[k] - stats[k]]]
  /\ UNCHANGED <<metrics, daily>>

\* the request of process p ends with this result; before and after are
\* history: the engine before and after the step that answers
Respond(p, fr, cl, e2, st, result) ==
  Set(p, "done", Idle, cl,
      [op |-> fr.op, req |-> fr.req, result |-> result,
       before |-> engine, after |-> e2], e2, st)

Serving == pc["main"] = "serving"

(***************************************************************************)
(* batch_upsert_memories, the end of one item (handlers.rs 390-408): the   *)
(* counters, the error entry, and after the last item the statistics and   *)
(* the response.  log is history: for each item whether the engine stored  *)
(* its point.                                                              *)
(***************************************************************************)
BatchCount(fr, id, r, applied) ==
  [fr EXCEPT !.i = @ + 1,
             !.success_count = IF r.status = "Ok" THEN @ + 1 ELSE @,
             !.failed_count = IF r.status = "Ok" THEN @ ELSE @ + 1,
             !.errors = IF r.status = "Ok" THEN @
                        ELSE Append(@, [point_id |-> id, error |-> r.status]),
             !.log = Append(@, [point_id |-> id, result |-> r.status,
                                stored |-> applied])]

BatchResponse(fr) ==
  [status |-> "Ok", success_count |-> fr.success_count,
   failed_count |-> fr.failed_count, errors |-> fr.errors, log |-> fr.log]

BatchMemoryItemReturn(p, fr, cl, e2, r, applied) ==
  LET fr2 == BatchCount(fr, fr.cur.point_id, r, applied)
  IN IF fr2.i > Len(fr.req.points)
     THEN Respond(p, fr2, cl, e2,
                  [stats EXCEPT !.upserts = @ + fr2.success_count],
                  BatchResponse(fr2))
     ELSE Set(p, "batch_item", fr2, cl, NoResp, e2, stats)

\* QdrantService::upsert_memory returns r to its caller
UpsertMemoryReturn(p, fr, cl, e2, r, applied) ==
  IF fr.op = "upsert_memory"
  THEN Respond(p, fr, cl, e2,
               IF r.status = "Ok" THEN [stats EXCEPT !.upserts = @ + 1]
               ELSE stats, r)
  ELSE BatchMemoryItemReturn(p, fr, cl, e2, r, applied)

(***************************************************************************)
(* ensure_collection_exists_for / ensure_collection_exists_for_documents:  *)
(* list_collections, then, when the name is not listed, create_collection  *)
(* and, for the documents collection, the three field indexes; every       *)
(* engine error is returned to the caller (the ? operator).                *)
(***************************************************************************)
\* a provisioning whose failure does not stop upsert_memory
EnsureReturnAnyway(p, fr, cl, e2, r) ==
  IF fr.op = "main"
  THEN IF r.status # "Ok" THEN Set(p, "exited", fr, cl, NoResp, e2, stats)
       ELSE IF ~fr.ens.docs
       THEN Set(p, "ensure_list",
                [fr EXCEPT !.ens = DocumentsEnsure(documents_collection_name)],
                cl, NoResp, e2, stats)
       ELSE Set(p, "serving", fr, cl, NoResp, e2, stats)
  ELSE Set(p, "upsert_points", fr, cl, NoResp, e2, stats)

EnsureReturn(p, fr, cl, e2, r) ==
  IF fr.op = "main"
  THEN IF r.status # "Ok" THEN Set(p, "exited", fr, cl, NoResp, e2, stats)
       ELSE IF ~fr.ens.docs
       THEN Set(p, "ensure_list",
                [fr EXCEPT !.ens = DocumentsEnsure(documents_collection_name)],
                cl, NoResp, e2, stats)
       ELSE Set(p, "serving", fr, cl, NoResp, e2, stats)
  ELSE IF r.status = "Ok" THEN Set(p, "upsert_points", fr, cl, NoResp, e2, stats)
  ELSE UpsertMemoryReturn(p, fr, cl, e2, r, FALSE)

\* the provisioning that creates without looking at the list
EnsureListCallAlwaysCreate(p, fr, cl) ==
  LET r == Call(list_collections(engine))
      cl2 == Append(cl, "list_collections")
  IN IF ~r.ok THEN EnsureReturn(p, fr, cl2, engine, QdrantError)
     ELSE Set(p, "ensure_create", fr, cl2, NoResp, engine, stats)

EnsureListCall(p, fr, cl) ==
  LET r == Call(list_collections(engine))
      cl2 == Append(cl, "list_collections")
  IN IF ~r.ok THEN EnsureReturn(p, fr, cl2, engine, QdrantError)
     ELSE IF fr.ens.coll \in r.collections
     THEN EnsureReturn(p, fr, cl2, engine, Ok)
     ELSE Set(p, "ensure_create", fr, cl2, NoResp, engine, stats)

EnsureList(p) ==
  /\ pc[p] = "ensure_list"
  /\ EnsureListCall(p, frame[p], calls[p])
  /\ UNCHANGED <<vector_dimension, engine_up, deleted, reassigned>>

EnsureCreate(p) ==
  /\ pc[p] = "ensure_create"
  /\ LET fr == frame[p]
         r == Call(create_collection(engine, fr.ens.coll, vector_dimension))
         cl2 == Append(calls[p], "create_collection")
     IN IF ~r.ok THEN EnsureReturn(p, fr, cl2, r.engine, QdrantError)
        ELSE IF fr.ens.docs
        THEN Set(p, "ensure_index", [fr EXCEPT !.ens.idx = 1], cl2, NoResp,
                 r.engine, stats)
        ELSE EnsureReturn(p, fr, cl2, r.engine, Ok)
  /\ UNCHANGED <<vector_dimension, engine_up, deleted, reassigned>>

EnsureIndex(p) ==
  /\ pc[p] = "ensure_index"
  /\ LET fr == frame[p]
         r == Call(create_field_index(engine, fr.ens.coll, IndexFields[fr.ens.idx]))
         cl2 == Append(calls[p], "create_field_index")
     IN IF ~r.ok THEN EnsureReturn(p, fr, cl2, r.engine, QdrantError)
        ELSE IF fr.ens.idx < Len(IndexFields)
        THEN Set(p, "ensure_index", [fr EXCEPT !.ens.idx = @ + 1], cl2, NoResp,
                 r.engine, stats)
        ELSE EnsureReturn(p, fr, cl2, r.engine, Ok)
  /\ UNCHANGED <<vector_dimension, engine_up, deleted, reassigned>>

(***************************************************************************)
(* QdrantService::upsert_memory: the dimension guard, the point, the       *)
(* collection name and the first call of ensure_collection_exists_for;     *)
(* then, in steps of their own, create_collection and upsert_points.       *)
(***************************************************************************)
MemoryFrame(op, req, cur) ==
  [op |-> op, req |-> req, cur |-> cur,
   point |-> MemoryPoint(cur.point_id, cur.vector, cur.payload),
   ens |-> MemoryEnsure(get_collection_name(cur.namespace)),
   i |-> 1, success_count |-> 0, failed_count |-> 0, errors |-> <<>>,
   log |-> <<>>]

\* upsert_memory without the dimension guard
upsert_memory_unguarded(p, fr, cl) == EnsureListCall(p, fr, cl)

upsert_memory(p, fr, cl) ==
  IF fr.cur.vector.len # vector_dimension
  THEN UpsertMemoryReturn(p, fr, cl, engine, InvalidRequest, FALSE)
  ELSE EnsureListCall(p, fr, cl)

UpsertMemory(t, req) ==
  /\ Serving /\ pc[t] = "idle"
  /\ ledger.counted.upserts < MaxUpserts
  /\ upsert_memory(t, MemoryFrame("upsert_memory", req, req), <<>>)
  /\ UNCHANGED <<vector_dimension, engine_up, deleted, reassigned>>

UpsertPoints(t) ==
  /\ pc[t] = "upsert_points"
  /\ LET fr == frame[t]
         r == Call(upsert_points(engine, fr.ens.coll, fr.point))
     IN /\ UpsertMemoryReturn(t, fr, Append(calls[t], "upsert_points"), r.engine,
                              IF r.ok THEN Ok ELSE QdrantError, r.ok)
        /\ deleted' = IF r.ok THEN deleted \ {<<fr.ens.coll, fr.cur.point_id>>}
                      ELSE deleted
  /\ UNCHANGED <<vector_dimension, engine_up, reassigned>>

(***************************************************************************)
(* QdrantService::get_memory and the get_memory handler, which turns the   *)
(* store's None into AppError::NotFound.                                   *)
(***************************************************************************)
get_memory(point_id, namespace) ==
  LET r == Call(get_points(engine, get_collection_name(namespace),
                           string_to_point_id(point_id), FALSE))
  IN IF ~r.ok THEN QdrantError
     ELSE IF r.result = <<>> THEN OkValue(None)
     ELSE LET d == MemoryFromValue(r.result[1].payload)
          IN IF d.status = "Ok" THEN OkValue(Some(d.value)) ELSE Internal

GetMemoryResponse(point_id, found) ==
  IF found.status # "Ok" THEN found
  ELSE IF found.value = None THEN NotFound
  ELSE OkValue([id |-> point_id, payload |-> Unwrap(found.value)])

GetMemory(t, point_id, namespace) ==
  /\ Serving /\ pc[t] = "idle"
  /\ Respond(t, [op |-> "get_memory",
                 req |-> [point_id |-> point_id, namespace |-> namespace]],
             <<"get_points">>, engine, stats,
             GetMemoryResponse(point_id, get_memory(point_id, namespace)))
  /\ UNCHANGED <<vector_dimension, engine_up, deleted, reassigned>>

(***************************************************************************)
(* QdrantService::delete_memory.                                           *)
(***************************************************************************)
DeleteMemory(t, point_id, namespace) ==
  /\ Serving /\ pc[t] = "idle"
  /\ ledger.counted.deletes < MaxDeletes
  /\ LET coll == get_collection_name(namespace)
         r == Call(delete_points_ids(engine, coll, {string_to_point_id(point_id)}))
     IN /\ Respond(t, [op |-> "delete_memory",
                       req |-> [point_id |-> point_id, namespace |-> namespace]],
                   <<"delete_points">>, r.engine,
                   IF r.ok THEN [stats EXCEPT !.deletes = @ + 1] ELSE stats,
                   IF r.ok THEN Ok ELSE QdrantError)
        /\ deleted' = IF r.ok THEN deleted \cup {<<coll, point_id>>} ELSE deleted
  /\ UNCHANGED <<vector_dimension, engine_up, reassigned>>

(***************************************************************************)
(* QdrantService::search_memories.                                         *)
(***************************************************************************)
\* the id reported for a hit: the payload's _point_id, else the native id
\* in decimal
ReportedId(point) ==
  IF "_point_id" \in DOMAIN point.payload THEN point.payload["_point_id"]
  ELSE ToString(point.id)

MemoryHits(points) ==
  IF \E i \in 1..Len(points) : MemoryFromValue(points[i].payload).status # "Ok"
  THEN Internal
  ELSE OkValue([i \in 1..Len(points) |->
                  [id |-> ReportedId(points[i]), score |-> points[i].score,
                   payload |-> MemoryFromValue(points[i].payload).value]])

search_memories(req) ==
  IF req.query_vector.len # vector_dimension
  THEN [calls |-> <<>>, result |-> InvalidRequest]
  ELSE LET r == Call(search_points(engine, get_collection_name(req.namespace),
                                   req.query_vector, req.limit,
                                   MemoryFilter(req.user_id, req.category),
                                   req.min_score))
       IN [calls |-> <<"search_points">>,
           result |-> IF ~r.ok THEN QdrantError ELSE MemoryHits(r.result)]

SearchMemories(t, req) ==
  /\ Serving /\ pc[t] = "idle"
  /\ ledger.counted.searches < MaxSearches
  /\ LET out == search_memories(req)
     IN Respond(t, [op |-> "search_memories", req |-> req], out.calls,
                engine,
                IF out.result.status = "Ok"
                THEN [stats EXCEPT !.searches = @ + 1] ELSE stats,
                out.result)
  /\ UNCHANGED <<vector_dimension, engine_up, deleted, reassigned>>

(***************************************************************************)
(* QdrantService::scroll_memories and the scroll_memories handler: one     *)
(* scroll from the start of the collection, with the u64 limit of the      *)
(* request cast to u32; next_page_offset is not read.  A u64 is written    *)
(* as its two 32-bit halves, [hi, lo] for hi * 2^32 + lo.                  *)
(***************************************************************************)
\* limit as u32
AsU32(n) == n.lo

ScrollHits(points) ==
  IF \E i \in 1..Len(points) : MemoryFromValue(points[i].payload).status # "Ok"
  THEN Internal
  ELSE OkValue([i \in 1..Len(points) |->
                  [id |-> ReportedId(points[i]),
                   payload |-> MemoryFromValue(points[i].payload).value]])

\* a scroll_memories that asks the engine for one record more than limit
scroll_memories_over(req) ==
  LET r == Call(scroll(engine, get_collection_name(req.namespace),
                       MemoryFilter(req.user_id, req.category),
                       AsU32(req.limit) + 1, None))
  IN IF ~r.ok THEN QdrantError ELSE ScrollHits(r.result)

scroll_memories(req) ==
  LET r == Call(scroll(engine, get_collection_name(req.namespace),
                       MemoryFilter(req.user_id, req.category),
                       AsU32(req.limit), None))
  IN IF ~r.ok THEN QdrantError ELSE ScrollHits(r.result)

ScrollMemories(t, req) ==
  /\ Serving /\ pc[t] = "idle"
  /\ Respond(t, [op |-> "scroll_memories", req |-> req], <<"scroll">>,
             engine, stats, scroll_memories(req))
  /\ UNCHANGED <<vector_dimension, engine_up, deleted, reassigned>>

(***************************************************************************)
(* batch_upsert_memories (handlers.rs 355-409): the size checks, then one  *)
(* QdrantService::upsert_memory per point, in order.  The upserts counter  *)
(* is unbounded in the code; a batch is taken only while the counter can   *)
(* stay within MaxUpserts.                                                 *)
(***************************************************************************)
NextMemoryItem(fr) ==
  LET cur == fr.req.points[fr.i]
  IN [fr EXCEPT !.cur = cur,
                !.point = MemoryPoint(cur.point_id, cur.vector, cur.payload),
                !.ens = MemoryEnsure(get_collection_name(cur.namespace))]

BatchUpsertMemories(t, req) ==
  /\ Serving /\ pc[t] = "idle"
  /\ ledger.counted.upserts + Len(req.points) <= MaxUpserts
  /\ LET point_count == Len(req.points)
         fr == [op |-> "batch_upsert_memories", req |-> req]
     IN IF point_count = 0 \/ point_count > MaxBatchPoints
        THEN Respond(t, fr, <<>>, engine, stats, InvalidRequest)
        ELSE upsert_memory(t, MemoryFrame("batch_upsert_memories", req,
                                          req.points[1]), <<>>)
  /\ UNCHANGED <<vector_dimension, engine_up, deleted, reassigned>>

BatchMemoryItem(t) ==
  /\ pc[t] = "batch_item"
  /\ upsert_memory(t, NextMemoryItem(frame[t]), calls[t])
  /\ UNCHANGED <<vector_dimension, engine_up, deleted, reassigned>>

(***************************************************************************)
(* The Document Store.  QdrantService::upsert_document checks nothing and  *)
(* provisions nothing: the upsert_document, batch_upsert_documents and     *)
(* search_documents handlers compare the vector's length with the literal  *)
(* 1024 and every method names the documents collection directly.  A       *)
(* request's caller is the owner on whose behalf the client asks; the      *)
(* routes by point id carry no owner, so the code cannot look at it.       *)
(***************************************************************************)
upsert_document(point_id, vector, payload) ==
  Call(upsert_points(engine, documents_collection_name,
                     DocumentPoint(point_id, vector, payload)))

UpsertDocument(t, req) ==
  /\ Serving /\ pc[t] = "idle"
  /\ LET fr == [op |-> "upsert_document", req |-> req]
     IN IF req.vector.len # DocVectorLen
        THEN Respond(t, fr, <<>>, engine, stats, InvalidRequest)
        ELSE LET r == upsert_document(req.point_id, req.vector, req.payload)
             IN Respond(t, fr, <<"upsert_points">>, r.engine, stats,
                        IF r.ok THEN Ok ELSE QdrantError)
  /\ reassigned' = IF engine' = engine THEN reassigned ELSE None
  /\ UNCHANGED <<vector_dimension, engine_up, deleted>>

\* one iteration of the loop of batch_upsert_documents (handlers.rs 526-540)
BatchDocumentItem(p, fr, cl) ==
  LET doc == fr.req.documents[fr.i]
      bad == doc.vector.len # DocVectorLen
      r == IF bad THEN Refused(engine)
           ELSE upsert_document(doc.point_id, doc.vector, doc.payload)
      fr2 == BatchCount(fr, doc.point_id,
                        IF bad THEN InvalidRequest
                        ELSE IF r.ok THEN Ok ELSE QdrantError, ~bad /\ r.ok)
      cl2 == IF bad THEN cl ELSE Append(cl, "upsert_points")
  IN IF fr2.i > Len(fr.req.documents)
     THEN Respond(p, fr2, cl2, r.engine, stats, BatchResponse(fr2))
     ELSE Set(p, "batch_document", fr2, cl2, NoResp, r.engine, stats)

BatchUpsertDocuments(t, req) ==
  /\ Serving /\ pc[t] = "idle"
  /\ LET fr == [op |-> "batch_upsert_documents", req |-> req, i |-> 1,
                success_count |-> 0, failed_count |-> 0, errors |-> <<>>,
                log |-> <<>>]
     IN IF Len(req.documents) > MaxBatchPoints
        THEN Respond(t, fr, <<>>, engine, stats, InvalidRequest)
        ELSE IF req.documents = <<>>
        THEN Respond(t, fr, <<>>, engine, stats, BatchResponse(fr))
        ELSE BatchDocumentItem(t, fr, <<>>)
  /\ reassigned' = IF engine' = engine THEN reassigned ELSE None
  /\ UNCHANGED <<vector_dimension, engine_up, deleted>>

BatchDocument(t) ==
  /\ pc[t] = "batch_document"
  /\ BatchDocumentItem(t, frame[t], calls[t])
  /\ reassigned' = IF engine' = engine THEN reassigned ELSE None
  /\ UNCHANGED <<vector_dimension, engine_up, deleted>>

\* the id search_documents reports: the payload's _point_id, else ""
DocumentReportedId(point) ==
  IF "_point_id" \in DOMAIN point.payload THEN point.payload["_point_id"]
  ELSE ""

DocumentHits(points) ==
  IF \E i \in 1..Len(points) : DocumentFromValue(points[i].payload).status # "Ok"
  THEN Internal
  ELSE OkValue([i \in 1..Len(points) |->
                  [id |-> DocumentReportedId(points[i]),
                   score |-> points[i].score,
                   payload |-> DocumentFromValue(points[i].payload).value,
                   vector |-> None]])

search_documents(req) ==
  LET r == Call(search_points(engine, documents_collection_name, req.vector,
                              req.limit,
                              DocumentSearchFilter(req.user_id, req.group_key),
                              req.min_score))
  IN IF ~r.ok THEN QdrantError ELSE DocumentHits(r.result)

SearchDocuments(t, req) ==
  /\ Serving /\ pc[t] = "idle"
  /\ LET fr == [op |-> "search_documents", req |-> req]
     IN IF req.vector.len # DocVectorLen
        THEN Respond(t, fr, <<>>, engine, stats, InvalidRequest)
        ELSE Respond(t, fr, <<"search_points">>, engine, stats,
                     search_documents(req))
  /\ UNCHANGED <<vector_dimension, engine_up, deleted, reassigned>>

get_document(point_id) ==
  LET r == Call(get_points(engine, documents_collection_name,
                           string_to_point_id(point_id), TRUE))
  IN IF ~r.ok THEN QdrantError
     ELSE IF r.result = <<>> THEN OkValue(None)
     ELSE LET d == DocumentFromValue(r.result[1].payload)
          IN IF d.status # "Ok" THEN Internal
             ELSE OkValue(Some([id |-> point_id, score |-> 100,
                                payload |-> d.value,
                                vector |-> r.result[1].vectors]))

GetDocument(t, caller, point_id) ==
  /\ Serving /\ pc[t] = "idle"
  /\ LET doc == get_document(point_id)
     IN Respond(t, [op |-> "get_document",
                    req |-> [user_id |-> caller, point_id |-> point_id]],
                <<"get_points">>, engine, stats,
                IF doc.status # "Ok" THEN doc
                ELSE IF doc.value = None THEN NotFound
                ELSE OkValue(Unwrap(doc.value)))
  /\ UNCHANGED <<vector_dimension, engine_up, deleted, reassigned>>

DeleteDocument(t, caller, point_id) ==
  /\ Serving /\ pc[t] = "idle"
  /\ LET r == Call(delete_points_ids(engine, documents_collection_name,
                                     {string_to_point_id(point_id)}))
     IN Respond(t, [op |-> "delete_document",
                    req |-> [user_id |-> caller, point_id |-> point_id]],
                <<"delete_points">>, r.engine, stats,
                IF r.ok THEN Ok ELSE QdrantError)
  /\ reassigned' = IF engine' = engine THEN reassigned ELSE None
  /\ UNCHANGED <<vector_dimension, engine_up, deleted>>

\* delete_documents_by_file, delete_documents_by_group_key and
\* delete_all_documents_for_user differ in their filter only; the value
\* returned is the status of the engine's update result (Completed, 2),
\* not a count
DeleteDocuments(t, op, req, filter) ==
  /\ Serving /\ pc[t] = "idle"
  /\ LET r == Call(delete_points_filter(engine, documents_collection_name, filter))
     IN Respond(t, [op |-> op, req |-> req], <<"delete_points">>, r.engine,
                stats, IF r.ok THEN OkValue(2) ELSE QdrantError)
  /\ reassigned' = IF engine' = engine THEN reassigned ELSE None
  /\ UNCHANGED <<vector_dimension, engine_up, deleted>>

DeleteByFile(t, req) ==
  DeleteDocuments(t, "delete_by_file", req, FileFilter(req.user_id, req.file_id))

DeleteByGroupKey(t, req) ==
  DeleteDocuments(t, "delete_by_group_key", req,
                  GroupKeyFilter(req.user_id, req.group_key))

DeleteAllForUser(t, user_id) ==
  DeleteDocuments(t, "delete_all_for_user", [user_id |-> user_id],
                  UserFilter(user_id))

\* update_document_group_key: one set_payload; the value returned is 1
UpdateGroupKey(t, req) ==
  /\ Serving /\ pc[t] = "idle"
  /\ LET r == Call(set_payload(engine, documents_collection_name,
                               FileFilter(req.user_id, req.file_id),
                               [group_key |-> req.new_group_key]))
     IN /\ Respond(t, [op |-> "update_group_key", req |-> req],
                   <<"set_payload">>, r.engine, stats,
                   IF r.ok THEN OkValue(1) ELSE QdrantError)
        /\ reassigned' = IF r.ok
                         THEN Some([req |-> req, before |-> engine,
                                    after |-> r.engine])
                         ELSE reassigned
  /\ UNCHANGED <<vector_dimension, engine_up, deleted>>

(***************************************************************************)
(* get_document_stats and get_document_group_keys: the owner's chunks are  *)
(* scrolled page by page and tallied; a failed scroll ends the loop with   *)
(* the error.  ScrollPageLimit stands for the page size (1000 in the code) *)
(* scaled so that the owner's chunks of the model fill more than one page. *)
(***************************************************************************)
HasField(point, k) == k \in DOMAIN point.payload

\* a tally that forgets the pages counted before
TallyLastPage(chunks_by_group, points) ==
  LET with_key == {i \in 1..Len(points) : HasField(points[i], "group_key")}
  IN [g \in {points[i].payload["group_key"] : i \in with_key} |->
        Cardinality({i \in with_key : points[i].payload["group_key"] = g})]

Tally(chunks_by_group, points) ==
  LET with_key == {i \in 1..Len(points) : HasField(points[i], "group_key")}
      keys == {points[i].payload["group_key"] : i \in with_key}
  IN [g \in DOMAIN chunks_by_group \cup keys |->
        (IF g \in DOMAIN chunks_by_group THEN chunks_by_group[g] ELSE 0)
        + Cardinality({i \in with_key : points[i].payload["group_key"] = g})]

DocumentStatsResponse(fr) ==
  [total_chunks |-> fr.total_chunks,
   total_files |-> Cardinality(fr.file_ids),
   total_groups |-> Cardinality(DOMAIN fr.chunks_by_group),
   chunks_by_group |-> fr.chunks_by_group]

StatsReturn(fr) ==
  IF fr.op = "get_group_keys" THEN OkValue(DOMAIN fr.chunks_by_group)
  ELSE OkValue(DocumentStatsResponse(fr))

\* a get_document_stats that answers with the pages read so far when a
\* scroll fails
get_document_stats_partial(p, fr, cl) ==
  LET r == Call(scroll(engine, documents_collection_name,
                       UserFilter(fr.req.user_id), ScrollPageLimit, fr.offset))
      cl2 == Append(cl, "scroll")
  IN IF ~r.ok THEN Respond(p, fr, cl2, engine, stats, StatsReturn(fr))
     ELSE LET fr2 ==
                [fr EXCEPT
                   !.offset = r.next_page_offset,
                   !.total_chunks = @ + Len(r.result),
                   !.file_ids = @ \cup
                      {r.result[i].payload["file_id"] :
                         i \in {j \in 1..Len(r.result) :
                                  HasField(r.result[j], "file_id")}},
                   !.chunks_by_group = Tally(@, r.result)]
          IN IF r.next_page_offset = None \/ r.result = <<>>
             THEN Respond(p, fr2, cl2, engine, stats, StatsReturn(fr2))
             ELSE Set(p, "stats_page", fr2, cl2, NoResp, engine, stats)

\* a get_document_stats that starts over when the engine returns no cursor
get_document_stats_again(p, fr, cl) ==
  LET r == Call(scroll(engine, documents_collection_name,
                       UserFilter(fr.req.user_id), ScrollPageLimit, fr.offset))
      cl2 == Append(cl, "scroll")
  IN IF ~r.ok THEN Respond(p, fr, cl2, engine, stats, QdrantError)
     ELSE IF r.result = <<>>
     THEN Respond(p, fr, cl2, engine, stats, StatsReturn(fr))
     ELSE Set(p, "stats_page",
              [fr EXCEPT !.offset = r.next_page_offset,
                         !.total_chunks = Len(r.result),
                         !.file_ids = {},
                         !.chunks_by_group = Tally([g \in {} |-> 0], r.result)],
              <<"scroll">>, NoResp, engine, stats)

get_document_stats(p, fr, cl) ==
  LET r == Call(scroll(engine, documents_collection_name,
                       UserFilter(fr.req.user_id), ScrollPageLimit, fr.offset))
      cl2 == Append(cl, "scroll")
  IN IF ~r.ok THEN Respond(p, fr, cl2, engine, stats, QdrantError)
     ELSE LET fr2 ==
                [fr EXCEPT
                   !.offset = r.next_page_offset,
                   !.total_chunks = @ + Len(r.result),
                   !.file_ids = @ \cup
                      {r.result[i].payload["file_id"] :
                         i \in {j \in 1..Len(r.result) :
                                  HasField(r.result[j], "file_id")}},
                   !.chunks_by_group = Tally(@, r.result)]
          IN IF r.next_page_offset = None \/ r.result = <<>>
             THEN Respond(p, fr2, cl2, engine, stats, StatsReturn(fr2))
             ELSE Set(p, "stats_page", fr2, cl2, NoResp, engine, stats)

GetDocumentStats(t, op, user_id) ==
  /\ Serving /\ pc[t] = "idle"
  /\ get_document_stats(t, [op |-> op, req |-> [user_id |-> user_id],
                            offset |-> None, total_chunks |-> 0,
                            file_ids |-> {},
                            chunks_by_group |-> [g \in {} |-> 0]], <<>>)
  /\ UNCHANGED <<vector_dimension, engine_up, deleted, reassigned>>

StatsPage(t) ==
  /\ pc[t] = "stats_page"
  /\ get_document_stats(t, frame[t], calls[t])
  /\ UNCHANGED <<vector_dimension, engine_up, deleted, reassigned>>

(***************************************************************************)
(* The Namespace Resolver applied to a namespace of a request:             *)
(* sanitize_namespace and get_collection_name are pure, the response       *)
(* carries their value.                                                    *)
(***************************************************************************)
SanitizeNamespace(t, value) ==
  /\ Serving /\ pc[t] = "idle"
  /\ Respond(t, [op |-> "sanitize_namespace", req |-> [value |-> value]],
             <<>>, engine, stats, OkValue(sanitize_namespace(value)))
  /\ UNCHANGED <<vector_dimension, engine_up, deleted, reassigned>>

GetCollectionName(t, namespace) ==
  /\ Serving /\ pc[t] = "idle"
  /\ Respond(t, [op |-> "get_collection_name",
                 req |-> [namespace |-> namespace]],
             <<>>, engine, stats, OkValue(get_collection_name(namespace)))
  /\ UNCHANGED <<vector_dimension, engine_up, deleted, reassigned>>

(***************************************************************************)
(* daily_stats_task (main.rs 313-337), spawned once main has provisioned   *)
(* the collections and running next to the request handlers: after the     *)
(* sleep, StatsTracker::get_snapshot loads the three counters one by one,  *)
(* send_daily_stats posts the snapshot, and StatsTracker::reset stores 0   *)
(* to the three counters one by one.  Each load and each store is one      *)
(* atomic step (Ordering::Relaxed).                                        *)
(***************************************************************************)
\* a reset that leaves the deletes counter as it is
reset_two(i) ==
  IF Counters[i] = "deletes" THEN stats
  ELSE [stats EXCEPT ![Counters[i]] = 0]

\* the i-th store of StatsTracker::reset
reset(i) == [stats EXCEPT ![Counters[i]] = 0]

GetSnapshot ==
  /\ Serving /\ daily.pc \in {"sleep", "get_snapshot"}
  /\ daily' = [pc |-> IF daily.i < Len(Counters) THEN "get_snapshot"
                      ELSE "send_daily_stats",
               i |-> IF daily.i < Len(Counters) THEN daily.i + 1 ELSE 1,
               snapshot |-> [daily.snapshot EXCEPT
                               ![Counters[daily.i]] = stats[Counters[daily.i]]]]
  /\ UNCHANGED <<vector_dimension, engine, engine_up, pc, frame, calls, resp,
                 stats, metrics, ledger, deleted, reassigned>>

SendDailyStats ==
  /\ daily.pc = "send_daily_stats"
  /\ daily' = [daily EXCEPT !.pc = "reset"]
  /\ ledger' = [ledger EXCEPT
                  !.reported = [k \in DOMAIN @ |-> @[k] + daily.snapshot[k]]]
  /\ UNCHANGED <<vector_dimension, engine, engine_up, pc, frame, calls, resp,
                 stats, metrics, deleted, reassigned>>

Reset ==
  /\ daily.pc = "reset"
  /\ stats' = reset(daily.i)
  /\ ledger' = [ledger EXCEPT !.since[Counters[daily.i]] = 0]
  /\ daily' = IF daily.i < Len(Counters) THEN [daily EXCEPT !.i = @ + 1]
              ELSE Sleeping
  /\ UNCHANGED <<vector_dimension, engine, engine_up, pc, frame, calls, resp,
                 metrics, deleted, reassigned>>

(***************************************************************************)
(* metrics::track_metrics (metrics.rs 84-102), the layer around every      *)
(* route: increment_requests, then the handler, then increment_failures    *)
(* when the status of the response is 400 or above.  Of a request other    *)
(* than GET /health only the status matters to the layer, so its handler   *)
(* is one step that answers with some status.  health_check (main.rs       *)
(* 411-463) loads requests_total, then requests_failed, and subtracts them *)
(* as u64: when requests_failed is the greater, the subtraction panics in  *)
(* a build with overflow checks and wraps in one without; a wrapped        *)
(* difference is written [wrapped |-> TRUE, n |-> d] for 2^64 - d.  The    *)
(* counters are unbounded in the code; the clients send MaxRequests        *)
(* requests.                                                               *)
(***************************************************************************)
TrackMetrics(t, route) ==
  /\ Serving /\ pc[t] = "idle"
  /\ metrics.requests_total < MaxRequests
  /\ metrics' = [metrics EXCEPT !.requests_total = @ + 1]
  /\ pc' = [pc EXCEPT ![t] = "next_run"]
  /\ frame' = [frame EXCEPT ![t] = [op |-> route]]
  /\ UNCHANGED <<vector_dimension, engine, engine_up, calls, resp, stats,
                 daily, ledger, deleted, reassigned>>

NextRun(t, status) ==
  /\ pc[t] = "next_run" /\ frame[t].op = "handler"
  /\ metrics' = IF status >= 400
                THEN [metrics EXCEPT !.requests_failed = @ + 1] ELSE metrics
  /\ pc' = [pc EXCEPT ![t] = "idle"]
  /\ frame' = [frame EXCEPT ![t] = Idle]
  /\ UNCHANGED <<vector_dimension, engine, engine_up, calls, resp, stats,
                 daily, ledger, deleted, reassigned>>

GetRequestsTotal(t) ==
  /\ pc[t] = "next_run" /\ frame[t].op = "health_check"
  /\ pc' = [pc EXCEPT ![t] = "get_requests_failed"]
  /\ frame' = [frame EXCEPT ![t] = [op |-> "health_check",
                                    requests_total |-> metrics.requests_total]]
  /\ UNCHANGED <<vector_dimension, engine, engine_up, calls, resp, stats,
                 metrics, daily, ledger, deleted, reassigned>>

GetRequestsFailed(t, overflow_checks) ==
  /\ pc[t] = "get_requests_failed"
  /\ LET requests_total == frame[t].requests_total
         requests_failed == metrics.requests_failed
         result ==
           IF requests_failed > requests_total /\ overflow_checks
           THEN [status |-> "Panic"]
           ELSE OkValue([requests_total |-> requests_total,
                         requests_failed |-> requests_failed,
                         requests_success |->
                           IF requests_failed > requests_total
                           THEN [wrapped |-> TRUE,
                                 n |-> requests_failed - requests_total]
                           ELSE [wrapped |-> FALSE,
                                 n |-> requests_total - requests_failed]])
     IN resp' = [resp EXCEPT ![t] = [op |-> "health_check", req |-> <<>>,
                                     result |-> result, before |-> engine,
                                     after |-> engine]]
  /\ pc' = [pc EXCEPT ![t] = "done"]
  /\ frame' = [frame EXCEPT ![t] = Idle]
  /\ UNCHANGED <<vector_dimension, engine, engine_up, calls, stats, metrics,
                 daily, ledger, deleted, reassigned>>

(***************************************************************************)
(* The process is started again against the same engine: main runs         *)
(* ensure_collection_exists anew, the requests in flight and the counters  *)
(* of the old process are gone.                                            *)
(***************************************************************************)
Restart ==
  /\ pc["main"] \in {"serving", "exited"}
  /\ pc' = [p \in Procs |-> IF p = "main" THEN "ensure_list" ELSE "idle"]
  /\ frame' = [p \in Procs |-> IF p = "main" THEN MainFrame ELSE Idle]
  /\ calls' = [p \in Procs |-> <<>>]
  /\ resp' = [p \in Procs |-> NoResp]
  /\ stats' = NoCounts
  /\ metrics' = NoRequests
  /\ daily' = Sleeping
  /\ ledger' = [counted |-> NoCounts, since |-> NoCounts, reported |-> NoCounts]
  /\ UNCHANGED <<vector_dimension, engine, engine_up, deleted, reassigned>>

(***************************************************************************)
(* A point that this service did not write: the engine is shared with      *)
(* other writers and earlier releases, whose payloads may lack a field     *)
(* that MemoryPayload or DocumentPayload requires, or the _point_id that    *)
(* upsert_memory and upsert_document add.  The readers of qdrant.rs have a  *)
(* branch for each case.  The point takes the place of the one stored       *)
(* under its native id.                                                    *)
(***************************************************************************)
StoreForeign(name, id, payload_map, missing) ==
  /\ Serving /\ engine_up /\ name \in DOMAIN engine
  /\ engine' =
       upsert_points(engine, name,
                     [id |-> id, vector |-> Vec(engine[name].size, 1),
                      payload |-> [k \in DOMAIN payload_map \ {missing} |->
                                     payload_map[k]]]).engine
  /\ reassigned' = IF engine' = engine THEN reassigned ELSE None
  /\ UNCHANGED <<vector_dimension, engine_up, pc, frame, calls, resp, stats,
                 metrics, daily, ledger, deleted>>

(***************************************************************************)
(* The engine becomes unreachable and reachable again: while it is         *)
(* unreachable every call fails (AppError::Qdrant).                        *)
(***************************************************************************)
EngineDown ==
  /\ engine_up /\ engine_up' = FALSE
  /\ UNCHANGED <<vector_dimension, engine, pc, frame, calls, resp, stats,
               metrics, daily, ledger, deleted, reassigned>>

EngineUp ==
  /\ ~engine_up /\ engine_up' = TRUE
  /\ UNCHANGED <<vector_dimension, engine, pc, frame, calls, resp, stats,
               metrics, daily, ledger, deleted, reassigned>>

(***************************************************************************)
(* The client takes the response; the task serves the next request.        *)
(***************************************************************************)
Reply(t) ==
  /\ pc[t] = "done"
  /\ Set(t, "idle", Idle, <<>>, NoResp, engine, stats)
  /\ UNCHANGED <<vector_dimension, engine_up, deleted, reassigned>>

(***************************************************************************)
(* Initial state: an empty engine, the process constructed and main about  *)
(* to run ensure_collection_exists (main.rs 170).                          *)
(***************************************************************************)
Init ==
  /\ vector_dimension \in {TestVectorDimension, DefaultVectorDimension}
  /\ engine = [c \in {} |-> 0]
  /\ engine_up = TRUE
  /\ pc = [p \in Procs |-> IF p = "main" THEN "ensure_list" ELSE "idle"]
  /\ frame = [p \in Procs |-> IF p = "main" THEN MainFrame ELSE Idle]
  /\ calls = [p \in Procs |-> <<>>]
  /\ resp = [p \in Procs |-> NoResp]
  /\ stats = NoCounts
  /\ metrics = NoRequests
  /\ daily = Sleeping
  /\ ledger = [counted |-> NoCounts, since |-> NoCounts, reported |-> NoCounts]
  /\ deleted = {}
  /\ reassigned = None

(***************************************************************************)
(* The memory workload.  String ids name their owner                       *)
(* (mem_{user_id}_{hash}, handlers.rs 62).                                 *)
(***************************************************************************)
OwnerOf(point_id) ==
  IF point_id \in {"mem_2_c", "doc_2_c", "doc_2_d"} THEN 2 ELSE 1
Feedback == Some(<<"F", "b", "-", "1">>)
MemoryVariants ==
  {[category |-> "personal", value |-> "v1", message_id |-> None,
    active |-> TRUE, tag |-> 1],
   [category |-> "work", value |-> "v2", message_id |-> Some(4488),
    active |-> TRUE, tag |-> 2],
   [category |-> "personal", value |-> "v1", message_id |-> None,
    active |-> FALSE, tag |-> 1]}
MemoryPayloadOf(point_id, v) ==
  MemoryPayload(OwnerOf(point_id), v.category, v.value, v.message_id, v.active)
MemoryItem(id, len, v, namespace) ==
  [point_id |-> id, vector |-> Vec(len, v.tag),
   payload |-> MemoryPayloadOf(id, v), namespace |-> namespace]
UpsertMemoryRequests ==
  {MemoryItem(id, vector_dimension, v, None) :
     id \in MemIds, v \in MemoryVariants}
  \cup
  {MemoryItem(id, len, v, None) :
     id \in MemIds, len \in VectorLens \ {vector_dimension},
     v \in {w \in MemoryVariants : w.category = "work"}}
  \cup
  {MemoryItem("mem_1_a", vector_dimension, v, Feedback) :
     v \in {w \in MemoryVariants : w.category = "work"}}
MemoryKeys == {<<id, None>> : id \in MemIds} \cup {<<"mem_1_a", Feedback>>}
Categories == {None, Some("work")}
MinScores == {0, 70}
SearchMemoriesRequests ==
  [query_vector : {Vec(vector_dimension, 1)}, user_id : Owners,
   category : Categories, limit : Limits, min_score : MinScores,
   namespace : {None}]
  \cup
  [query_vector : {Vec(len, 1) : len \in VectorLens \ {vector_dimension}},
   user_id : Owners, category : {None}, limit : {MaxLimit}, min_score : {0},
   namespace : {None}]
  \cup
  [query_vector : {Vec(vector_dimension, 2)}, user_id : Owners,
   category : {None}, limit : {MaxLimit}, min_score : {0},
   namespace : {Feedback}]

\* the limits of a scroll: the small ones and 2^32 + 1, above the range of
\* u32
ScrollMemoriesRequests ==
  [user_id : Owners, category : Categories,
   limit : [hi : {0}, lo : Limits] \cup {[hi |-> 1, lo |-> 1]},
   namespace : {None}]
  \cup
  [user_id : Owners, category : {None}, limit : {[hi |-> 0, lo |-> MaxLimit]},
   namespace : {Feedback}]

MemNext ==
  \/ EnsureList("main")
  \/ EnsureCreate("main")
  \/ EnsureIndex("main")
  \/ \E req \in UpsertMemoryRequests : UpsertMemory("t1", req)
  \/ EnsureCreate("t1")
  \/ UpsertPoints("t1")
  \/ \E k \in MemoryKeys : GetMemory("t1", k[1], k[2])
  \/ \E k \in MemoryKeys : DeleteMemory("t1", k[1], k[2])
  \/ \E req \in SearchMemoriesRequests : SearchMemories("t1", req)
  \/ \E req \in ScrollMemoriesRequests : ScrollMemories("t1", req)
  \/ Reply("t1")

SpecMem == Init /\ [][MemNext]_vars

(***************************************************************************)
(* The document workload: chunks of two files and two groups; both owners  *)
(* use the same file ids and group keys.                                   *)
(***************************************************************************)
FileIds == {7, 8}
GroupKeys == {"g1", "g2"}
DocumentVariants ==
  {[file_id |-> 7, group_key |-> "g1", tag |-> 1],
   [file_id |-> 8, group_key |-> "g2", tag |-> 2]}
DocumentItem(id, len, v) ==
  [point_id |-> id, vector |-> Vec(len, v.tag),
   payload |-> DocumentPayload(OwnerOf(id), v.file_id, v.group_key, "chunk")]
UpsertDocumentRequests ==
  {DocumentItem(id, len, v) :
     id \in DocIds, len \in VectorLens, v \in DocumentVariants}
SearchDocumentsRequests ==
  [vector : {Vec(len, 1) : len \in VectorLens}, user_id : Owners,
   group_key : {None, Some("g1")}, limit : Limits, min_score : {0}]
DeleteByFileRequests == [user_id : Owners, file_id : FileIds]
DeleteByGroupKeyRequests == [user_id : Owners, group_key : GroupKeys]
UpdateGroupKeyRequests ==
  [user_id : Owners, file_id : FileIds, new_group_key : GroupKeys]

\* the sequences of at most n elements of S
RECURSIVE SeqsUpTo(_, _)
SeqsUpTo(S, n) ==
  IF n = 0 THEN {<<>>}
  ELSE LET shorter == SeqsUpTo(S, n - 1)
       IN shorter \cup {Append(s, x) : s \in shorter, x \in S}

BatchDocuments ==
  {DocumentItem("doc_1_a", DefaultVectorDimension,
                CHOOSE v \in DocumentVariants : v.file_id = 7),
   DocumentItem("doc_1_b", TestVectorDimension,
                CHOOSE v \in DocumentVariants : v.file_id = 8),
   DocumentItem("doc_2_c", DefaultVectorDimension,
                CHOOSE v \in DocumentVariants : v.file_id = 8)}
BatchUpsertDocumentsRequests ==
  [documents : SeqsUpTo(BatchDocuments, MaxBatchLen)]

BatchMemories ==
  {MemoryItem("mem_1_a", vector_dimension,
              CHOOSE v \in MemoryVariants : v.category = "work", None),
   MemoryItem("mem_1_b", IF vector_dimension = TestVectorDimension
                         THEN DefaultVectorDimension ELSE TestVectorDimension,
              CHOOSE v \in MemoryVariants : v.category = "work", None),
   MemoryItem("mem_2_c", vector_dimension,
              CHOOSE v \in MemoryVariants : v.category = "work", Feedback)}
BatchUpsertMemoriesRequests ==
  [points : SeqsUpTo(BatchMemories, MaxBatchLen)]

DocNext ==
  \/ EnsureList("main")
  \/ EnsureCreate("main")
  \/ EnsureIndex("main")
  \/ \E req \in UpsertDocumentRequests : UpsertDocument("t1", req)
  \/ \E req \in BatchUpsertDocumentsRequests : BatchUpsertDocuments("t1", req)
  \/ BatchDocument("t1")
  \/ \E req \in SearchDocumentsRequests : SearchDocuments("t1", req)
  \/ \E caller \in Owners, id \in DocIds : GetDocument("t1", caller, id)
  \/ \E caller \in Owners, id \in DocIds : DeleteDocument("t1", caller, id)
  \/ \E req \in DeleteByFileRequests : DeleteByFile("t1", req)
  \/ \E req \in DeleteByGroupKeyRequests : DeleteByGroupKey("t1", req)
  \/ \E o \in Owners : DeleteAllForUser("t1", o)
  \/ \E req \in UpdateGroupKeyRequests : UpdateGroupKey("t1", req)
  \/ \E op \in {"get_document_stats", "get_group_keys"}, o \in Owners :
       GetDocumentStats("t1", op, o)
  \/ StatsPage("t1")
  \/ Reply("t1")

SpecDoc == Init /\ [][DocNext]_vars

BatchNext ==
  \/ EngineDown
  \/ EngineUp
  \/ EnsureList("main")
  \/ EnsureCreate("main")
  \/ EnsureIndex("main")
  \/ \E req \in BatchUpsertMemoriesRequests : BatchUpsertMemories("t1", req)
  \/ BatchMemoryItem("t1")
  \/ EnsureCreate("t1")
  \/ UpsertPoints("t1")
  \/ \E req \in BatchUpsertDocumentsRequests : BatchUpsertDocuments("t1", req)
  \/ BatchDocument("t1")
  \/ Reply("t1")

SpecBatch == Init /\ [][BatchNext]_vars

\* two clients that upsert into the default namespace and into a namespace
\* whose collection does not exist yet
ProvisioningRequests ==
  {MemoryItem("mem_1_a", vector_dimension,
              CHOOSE v \in MemoryVariants : v.category = "work", Feedback),
   MemoryItem("mem_1_b", vector_dimension,
              CHOOSE v \in MemoryVariants : v.category = "work", None)}

ProvNext ==
  \/ Restart
  \/ EnsureList("main")
  \/ EnsureCreate("main")
  \/ EnsureIndex("main")
  \/ \E t \in Tasks, req \in ProvisioningRequests : UpsertMemory(t, req)
  \/ \E t \in Tasks : EnsureCreate(t)
  \/ \E t \in Tasks : UpsertPoints(t)
  \/ \E t \in Tasks : Reply(t)

SpecProv == Init /\ [][ProvNext]_vars

\* one client that stores chunks of both owners under three native ids and
\* asks for statistics, while the engine may become unreachable
StatsUpsertRequests ==
  {DocumentItem(id, DocVectorLen, v) :
     id \in DocIds \cup {"doc_2_d"}, v \in DocumentVariants}

StatsNext ==
  \/ EngineDown
  \/ EngineUp
  \/ EnsureList("main")
  \/ EnsureCreate("main")
  \/ EnsureIndex("main")
  \/ \E req \in StatsUpsertRequests : UpsertDocument("t1", req)
  \/ \E op \in {"get_document_stats", "get_group_keys"}, o \in Owners :
       GetDocumentStats("t1", op, o)
  \/ StatsPage("t1")
  \/ Reply("t1")

SpecStats == Init /\ [][StatsNext]_vars

\* one client that stores chunks and asks for statistics, scheduled until
\* its request is answered: the runtime polls the handler's future whenever
\* an awaited scroll call has returned, with a page or with an error
StatsLiveNext ==
  \/ EngineDown
  \/ EngineUp
  \/ EnsureList("main")
  \/ EnsureCreate("main")
  \/ EnsureIndex("main")
  \/ \E req \in StatsUpsertRequests : UpsertDocument("t1", req)
  \/ \E o \in Owners : GetDocumentStats("t1", "get_document_stats", o)
  \/ StatsPage("t1")
  \/ Reply("t1")

SpecStatsLive ==
  Init /\ [][StatsLiveNext]_vars /\ WF_vars(StatsPage("t1"))

\* one client that stores memories and chunks of both owners and deletes
\* chunks by file, by group and by owner
DeleteNext ==
  \/ EnsureList("main")
  \/ EnsureCreate("main")
  \/ EnsureIndex("main")
  \/ \E req \in ProvisioningRequests : UpsertMemory("t1", req)
  \/ EnsureCreate("t1")
  \/ UpsertPoints("t1")
  \/ \E req \in StatsUpsertRequests : UpsertDocument("t1", req)
  \/ \E req \in DeleteByFileRequests : DeleteByFile("t1", req)
  \/ \E req \in DeleteByGroupKeyRequests : DeleteByGroupKey("t1", req)
  \/ \E o \in Owners : DeleteAllForUser("t1", o)
  \/ Reply("t1")

SpecDelete == Init /\ [][DeleteNext]_vars

\* one client that stores memories, with and without message_id, and chunks
\* under string ids that share a native id, and reads them back
CodecMemoryRequests ==
  {MemoryItem(id, vector_dimension, v, None) :
     id \in {"mem_1_a", "mem_2_c"}, v \in MemoryVariants}
  \cup
  {MemoryItem("mem_1_a", vector_dimension, v, Feedback) :
     v \in {w \in MemoryVariants : w.category = "work"}}
CodecDocumentRequests ==
  {DocumentItem(id, DocVectorLen, v) :
     id \in {"doc_1_a", "doc_2_c"}, v \in DocumentVariants}

CodecNext ==
  \/ EnsureList("main")
  \/ EnsureCreate("main")
  \/ EnsureIndex("main")
  \/ \E req \in CodecMemoryRequests : UpsertMemory("t1", req)
  \/ EnsureCreate("t1")
  \/ UpsertPoints("t1")
  \/ \E key \in MemoryKeys : GetMemory("t1", key[1], key[2])
  \/ \E req \in CodecDocumentRequests : UpsertDocument("t1", req)
  \/ \E caller \in Owners, id \in DocIds : GetDocument("t1", caller, id)
  \/ Reply("t1")

SpecCodec == Init /\ [][CodecNext]_vars

\* the namespaces of at most MaxNamespaceLen characters over a lower-case
\* and an upper-case letter, a digit, '-', '_' and '.', and the namespace
\* "Feedback-False_Positive"
NamespaceChars == {"a", "B", "7", "-", "_", "."}
FeedbackFalsePositive ==
  <<"F","e","e","d","b","a","c","k","-","F","a","l","s","e","_",
    "P","o","s","i","t","i","v","e">>
Namespaces ==
  SeqsUpTo(NamespaceChars, MaxNamespaceLen) \cup {FeedbackFalsePositive}

NamesNext ==
  \/ EnsureList("main")
  \/ EnsureCreate("main")
  \/ EnsureIndex("main")
  \/ \E value \in Namespaces : SanitizeNamespace("t1", value)
  \/ \E namespace \in {None} \cup {Some(n) : n \in Namespaces} :
       GetCollectionName("t1", namespace)
  \/ Reply("t1")

SpecNames == Init /\ [][NamesNext]_vars

\* one client reads memories and chunks of a store in which points of other
\* writers stand next to its own: a memory without key or without _point_id,
\* a chunk without text, without group_key or without _point_id
LegacyNext ==
  \/ EnsureList("main")
  \/ EnsureCreate("main")
  \/ EnsureIndex("main")
  \/ \E v \in MemoryVariants :
       UpsertMemory("t1", MemoryItem("mem_1_b", vector_dimension, v, None))
  \/ UpsertPoints("t1")
  \/ \E v \in DocumentVariants :
       UpsertDocument("t1", DocumentItem("doc_1_b", DocVectorLen, v))
  \/ \E missing \in {"key", "_point_id"} :
       StoreForeign(collection_name, string_to_point_id("mem_1_a"),
                    MemoryPoint("mem_1_a", Vec(vector_dimension, 1),
                                MemoryPayload(1, "personal", "v1", None,
                                              TRUE)).payload,
                    missing)
  \/ \E missing \in {"text", "group_key", "_point_id"} :
       StoreForeign(documents_collection_name, string_to_point_id("doc_1_a"),
                    DocumentPoint("doc_1_a", Vec(DocVectorLen, 1),
                                  DocumentPayload(1, 7, "g1", "chunk")).payload,
                    missing)
  \/ \E id \in {"mem_1_a", "mem_1_b"} : GetMemory("t1", id, None)
  \/ \E category \in Categories :
       SearchMemories("t1", [query_vector |-> Vec(vector_dimension, 1),
                             user_id |-> 1, category |-> category,
                             limit |-> MaxLimit, min_score |-> 0,
                             namespace |-> None])
  \/ \E lo \in Limits :
       ScrollMemories("t1", [user_id |-> 1, category |-> None,
                             limit |-> [hi |-> 0, lo |-> lo],
                             namespace |-> None])
  \/ \E group_key \in {None, Some("g1")} :
       SearchDocuments("t1", [vector |-> Vec(DocVectorLen, 1), user_id |-> 1,
                              group_key |-> group_key, limit |-> MaxLimit,
                              min_score |-> 0])
  \/ \E id \in {"doc_1_a", "doc_1_b"} : GetDocument("t1", 1, id)
  \/ \E op \in {"get_document_stats", "get_group_keys"} :
       GetDocumentStats("t1", op, 1)
  \/ StatsPage("t1")
  \/ Reply("t1")

SpecLegacy == Init /\ [][LegacyNext]_vars

\* the two clients of ProvNext and restarts of the process, while the engine
\* may become unreachable between any two calls
OutageNext ==
  \/ Restart
  \/ EngineDown
  \/ EngineUp
  \/ EnsureList("main")
  \/ EnsureCreate("main")
  \/ EnsureIndex("main")
  \/ \E t \in Tasks, req \in ProvisioningRequests : UpsertMemory(t, req)
  \/ \E t \in Tasks : EnsureCreate(t)
  \/ \E t \in Tasks : UpsertPoints(t)
  \/ \E t \in Tasks : Reply(t)

SpecOutage == Init /\ [][OutageNext]_vars

\* one client that stores, searches and deletes memories while
\* daily_stats_task reports and resets the counters
ReportNext ==
  \/ EnsureList("main")
  \/ EnsureCreate("main")
  \/ EnsureIndex("main")
  \/ \E req \in {r \in ProvisioningRequests : r.namespace = None} :
       UpsertMemory("t1", req)
  \/ UpsertPoints("t1")
  \/ SearchMemories("t1", [query_vector |-> Vec(vector_dimension, 1),
                           user_id |-> 1, category |-> None,
                           limit |-> MaxLimit, min_score |-> 0,
                           namespace |-> None])
  \/ DeleteMemory("t1", "mem_1_b", None)
  \/ Reply("t1")
  \/ GetSnapshot
  \/ SendDailyStats
  \/ Reset

SpecReport == Init /\ [][ReportNext]_vars

\* two clients that send GET /health and requests that succeed or fail
HealthNext ==
  \/ EnsureList("main")
  \/ EnsureCreate("main")
  \/ EnsureIndex("main")
  \/ \E t \in Tasks, route \in {"handler", "health_check"} :
       TrackMetrics(t, route)
  \/ \E t \in Tasks, status \in {200, 500} : NextRun(t, status)
  \/ \E t \in Tasks : GetRequestsTotal(t)
  \/ \E t \in Tasks, overflow_checks \in BOOLEAN :
       GetRequestsFailed(t, overflow_checks)
  \/ \E t \in Tasks : Reply(t)

SpecHealth == Init /\ [][HealthNext]_vars


(***************************************************************************)
(* Properties.  A response is read with the history it carries: the        *)
(* request, the engine before and after the step that answered, and the    *)
(* engine calls the request issued.                                        *)
(***************************************************************************)
DocumentChunks(e) ==
  IF documents_collection_name \in DOMAIN e
  THEN e[documents_collection_name].points ELSE NoPoints

MemoryPoints(e, namespace) ==
  IF get_collection_name(namespace) \in DOMAIN e
  THEN e[get_collection_name(namespace)].points ELSE NoPoints

OwnedBy(points, user_id) ==
  {id \in DOMAIN points : points[id].payload["user_id"] = user_id}

OwnerScoped ==
  {"search_documents", "get_document", "delete_document", "delete_by_file",
   "delete_by_group_key", "delete_all_for_user", "update_group_key",
   "get_document_stats", "get_group_keys"}

\* C1: no Document Store search, get-by-id, delete-by-id, delete-by-file,
\* delete-by-group, delete-all-for-owner, reassignGroupKey or getStats
\* returns, removes or changes a chunk whose owner differs from the owner the
\* caller supplied: the chunks of other owners are the same after the
\* operation as before, returned chunks are the caller's, and the statistics
\* count the caller's chunks only.
C1_DocumentOwnerIsolation ==
  \A t \in Tasks :
    (resp[t].op \in OwnerScoped /\ resp[t].result.status = "Ok") =>
      LET rs == resp[t]
          owner == rs.req.user_id
          before == DocumentChunks(rs.before)
          after == DocumentChunks(rs.after)
      IN /\ \A id \in DOMAIN before \ OwnedBy(before, owner) :
              id \in DOMAIN after /\ after[id] = before[id]
         /\ rs.op = "search_documents" =>
              \A i \in 1..Len(rs.result.value) :
                rs.result.value[i].payload.user_id = owner
         /\ rs.op = "get_document" => rs.result.value.payload.user_id = owner
         /\ rs.op = "get_document_stats" =>
              rs.result.value.total_chunks = Cardinality(OwnedBy(after, owner))
         /\ rs.op = "get_group_keys" =>
              rs.result.value =
                {after[id].payload["group_key"] : id \in OwnedBy(after, owner)}

\* C2: every record returned by a memory search has the user_id of the
\* request, is active and has the requested category when one is given, and
\* at most limit records are returned.
C2_SearchFilter ==
  \A t \in Tasks :
    (resp[t].op = "search_memories" /\ resp[t].result.status = "Ok") =>
      LET req == resp[t].req
          hits == resp[t].result.value
      IN /\ Len(hits) <= req.limit
         /\ \A i \in 1..Len(hits) :
              /\ hits[i].payload.user_id = req.user_id
              /\ hits[i].payload.active = TRUE
              /\ IsSome(req.category) =>
                   hits[i].payload.category = Unwrap(req.category)

\* C2 witness: a search returned a record although the collection also
\* holds, as close to the query, a record of another owner or an inactive one.
C2_Witness ==
  \E t \in Tasks :
    /\ resp[t].op = "search_memories" /\ resp[t].result.status = "Ok"
    /\ Len(resp[t].result.value) >= 1
    /\ LET points == MemoryPoints(resp[t].after, resp[t].req.namespace)
       IN \E id \in DOMAIN points :
            /\ Score(resp[t].req.query_vector, points[id].vector)
                 >= resp[t].req.min_score
            /\ \/ points[id].payload["user_id"] # resp[t].req.user_id
               \/ points[id].payload["active"] = FALSE

WrongLength(rs) ==
  \/ rs.op = "upsert_memory" /\ rs.req.vector.len # vector_dimension
  \/ rs.op = "search_memories" /\ rs.req.query_vector.len # vector_dimension

\* C3: a memory upsert or memory search whose vector's length differs from
\* the configured vector dimension is answered InvalidRequest, has issued no
\* engine call and has left the engine as it was.
C3_DimensionGuard ==
  \A t \in Tasks :
    WrongLength(resp[t]) =>
      /\ resp[t].result = InvalidRequest
      /\ calls[t] = <<>>
      /\ resp[t].after = resp[t].before

\* C3 witness: a memory upsert with a vector of the wrong length was
\* answered while the engine holds points.
C3_Witness ==
  \E t \in Tasks :
    /\ resp[t].op = "upsert_memory" /\ WrongLength(resp[t])
    /\ resp[t].result = InvalidRequest
    /\ DOMAIN MemoryPoints(engine, None) # {}

\* the handler looked at the vector's length and refused
Rejected(rs, t) == rs.result = InvalidRequest /\ calls[t] = <<>>

\* C4: a document upsert, a document search and each item of a document
\* batch is rejected, before any engine call for it, exactly when its
\* vector's length differs from the configured vector dimension, the size
\* the documents collection is created with.
C4_DocumentDimension ==
  \A t \in Tasks :
    LET rs == resp[t]
    IN /\ rs.op \in {"upsert_document", "search_documents"} =>
            (Rejected(rs, t) <=> rs.req.vector.len # vector_dimension)
       /\ (rs.op = "batch_upsert_documents" /\ rs.result.status = "Ok") =>
            /\ \A i \in 1..Len(rs.req.documents) :
                 rs.result.log[i].result = "InvalidRequest"
                   <=> rs.req.documents[i].vector.len # vector_dimension
            /\ Len(calls[t]) =
                 Cardinality({i \in 1..Len(rs.req.documents) :
                                rs.req.documents[i].vector.len = vector_dimension})

WithPointId(points, point_id) ==
  {id \in DOMAIN points : points[id].payload["_point_id"] = point_id}

\* C5: after a successful upsert of a string id the collection holds exactly
\* one point for it, with the vector and the payload of that upsert; an upsert
\* of an id that has a point adds none and an upsert of an id that has none
\* adds one, so that two upserts of one id add one point, not two.
C5_UpsertIdempotent ==
  \A t \in Tasks :
    (resp[t].op = "upsert_memory" /\ resp[t].result = Ok) =>
      LET req == resp[t].req
          before == MemoryPoints(resp[t].before, req.namespace)
          after == MemoryPoints(resp[t].after, req.namespace)
      IN /\ Cardinality(WithPointId(after, req.point_id)) = 1
         /\ \A id \in WithPointId(after, req.point_id) :
              /\ after[id].vector = req.vector
              /\ MemoryFromValue(after[id].payload) = OkValue(req.payload)
         /\ Cardinality(DOMAIN after) =
              IF WithPointId(before, req.point_id) # {}
              THEN Cardinality(DOMAIN before)
              ELSE Cardinality(DOMAIN before) + 1

\* C6: after a successful delete of a string id in a namespace, and no later
\* upsert of that id into that namespace, a get of it answers NotFound.
C6_DeleteThenGet ==
  \A t \in Tasks :
    (/\ resp[t].op = "get_memory"
     /\ <<get_collection_name(resp[t].req.namespace), resp[t].req.point_id>>
          \in deleted)
      => resp[t].result = NotFound

IssuedCreate(p) == \E i \in 1..Len(calls[p]) : calls[p][i] = "create_collection"

\* C7: a memory upsert whose provisioning issued create-collection returns
\* success, also when another caller created the collection first and the
\* engine refused this create as already existing.
C7_ProvisioningRace ==
  \A t \in Tasks :
    (resp[t].op = "upsert_memory" /\ IssuedCreate(t)) => resp[t].result = Ok

\* C8: a provisioning call that finds its collection listed by the engine
\* issues no create-collection and no create-field-index call, succeeds and
\* leaves the engine unchanged, every time it is made.
C8_EnsureIdempotent ==
  [][\A p \in Procs :
       (/\ engine_up
        /\ calls'[p] # calls[p] /\ calls'[p] # <<>>
        /\ calls'[p][Len(calls'[p])] = "list_collections"
        /\ pc'[p] # "done"
        /\ (IF p = "main" THEN frame[p] ELSE frame'[p]).ens.coll \in DOMAIN engine)
       => /\ engine' = engine
          /\ pc'[p] \in {"upsert_points", "ensure_list", "serving"}]_vars

\* C8 witness: a restarted process found both of its collections listed
\* and serves after two list calls and nothing else, and an upsert into a
\* namespace that holds a point found the namespace's collection listed and
\* went on to upsert-points with no create call.
C8_Witness ==
  /\ Serving /\ calls["main"] = <<"list_collections", "list_collections">>
  /\ \E t \in Tasks :
       /\ pc[t] = "upsert_points" /\ calls[t] = <<"list_collections">>
       /\ frame[t].ens.coll = get_collection_name(Feedback)
       /\ DOMAIN engine[frame[t].ens.coll].points # {}

BatchItems(rs) ==
  IF rs.op = "batch_upsert_memories" THEN rs.req.points ELSE rs.req.documents

ItemPoint(rs, item) ==
  IF rs.op = "batch_upsert_memories"
  THEN MemoryPoint(item.point_id, item.vector, item.payload)
  ELSE DocumentPoint(item.point_id, item.vector, item.payload)

ItemPoints(rs, item) ==
  IF rs.op = "batch_upsert_memories" THEN MemoryPoints(rs.after, item.namespace)
  ELSE DocumentChunks(rs.after)

NotStored(entry) == ~entry.stored

\* C9: a batch of n items is processed item by item in order whatever
\* failed before; success_count is the number of items stored, failed_count
\* the number not stored, their sum n; the errors are the failed items' ids,
\* one each; and every stored item is retrievable afterwards: the get of its
\* id finds the record of the last stored item of the batch with that id.
C9_BatchIsolation ==
  \A t \in Tasks :
    (/\ resp[t].op \in {"batch_upsert_memories", "batch_upsert_documents"}
     /\ resp[t].result.status = "Ok") =>
      LET rs == resp[t]
          out == rs.result
          items == BatchItems(rs)
          n == Len(items)
          stored == {i \in 1..n : out.log[i].stored}
          failed == SelectSeq(out.log, NotStored)
      IN /\ Len(out.log) = n
         /\ \A i \in 1..n : out.log[i].point_id = items[i].point_id
         /\ out.success_count = Cardinality(stored)
         /\ out.failed_count = n - Cardinality(stored)
         /\ out.success_count + out.failed_count = n
         /\ Len(out.errors) = Len(failed)
         /\ \A k \in 1..Len(failed) : out.errors[k].point_id = failed[k].point_id
         /\ \A i \in stored :
              LET last == CHOOSE j \in stored :
                            /\ items[j].point_id = items[i].point_id
                            /\ \A k \in stored :
                                 items[k].point_id = items[i].point_id => k <= j
                  points == ItemPoints(rs, items[last])
                  point == ItemPoint(rs, items[last])
              IN /\ point.id \in DOMAIN points
                 /\ points[point.id] =
                      [vector |-> point.vector, payload |-> point.payload]

\* C10: reassignGroupKey leaves the set of stored points as it was, gives
\* every chunk of the owner and file the new group key and nothing else new,
\* and leaves every other chunk unchanged.
C10_ReassignGroupKey ==
  \A t \in Tasks :
    (resp[t].op = "update_group_key" /\ resp[t].result.status = "Ok") =>
      LET req == resp[t].req
          before == DocumentChunks(resp[t].before)
          after == DocumentChunks(resp[t].after)
      IN /\ DOMAIN after = DOMAIN before
         /\ \A id \in DOMAIN before :
              IF /\ before[id].payload["user_id"] = req.user_id
                 /\ before[id].payload["file_id"] = req.file_id
              THEN /\ after[id].vector = before[id].vector
                   /\ after[id].payload =
                        [before[id].payload EXCEPT
                           !["group_key"] = req.new_group_key]
              ELSE after[id] = before[id]

\* C10 witness: a reassignment changed the group key of a chunk while the
\* collection held a chunk of the same file of another owner.
C10_Witness ==
  \E t \in Tasks :
    /\ resp[t].op = "update_group_key" /\ resp[t].result.status = "Ok"
    /\ LET req == resp[t].req
           before == DocumentChunks(resp[t].before)
       IN /\ \E id \in OwnedBy(before, req.user_id) :
               /\ before[id].payload["file_id"] = req.file_id
               /\ before[id].payload["group_key"] # req.new_group_key
          /\ \E id \in DOMAIN before \ OwnedBy(before, req.user_id) :
               /\ before[id].payload["file_id"] = req.file_id
               /\ before[id].payload["group_key"] # req.new_group_key

ChunksOfFile(points, user_id, file_id) ==
  {id \in OwnedBy(points, user_id) : points[id].payload["file_id"] = file_id}

GroupCount(points, user_id, group_key) ==
  Cardinality({id \in OwnedBy(points, user_id) :
                 points[id].payload["group_key"] = group_key})

FilesOf(points, user_id) ==
  {points[id].payload["file_id"] : id \in OwnedBy(points, user_id)}

\* the last reassignment moved at least one chunk, all chunks of the file had
\* one group key other than the new one, and the statistics request of task t
\* is for the same owner and ran on the engine the reassignment left
StatsFollowReassign(t) ==
  /\ resp[t].op = "get_document_stats" /\ resp[t].result.status = "Ok"
  /\ IsSome(reassigned)
  /\ LET u == Unwrap(reassigned)
         before == DocumentChunks(u.before)
         moved == ChunksOfFile(before, u.req.user_id, u.req.file_id)
     IN /\ resp[t].req.user_id = u.req.user_id
        /\ resp[t].before = u.after /\ resp[t].after = u.after
        /\ moved # {}
        /\ \A i, j \in moved :
             before[i].payload["group_key"] = before[j].payload["group_key"]
        /\ \A i \in moved :
             before[i].payload["group_key"] # u.req.new_group_key

\* C11: after reassignGroupKey(o, f, g) of a file whose chunks all carry
\* group key k # g, getStats(o) counts the chunks of f under g, k's count is
\* lower by the number of chunks of f (k is absent when no other chunk has
\* it), and totalChunks and totalFiles are what they were before.
C11_StatsAfterReassign ==
  \A t \in Tasks :
    StatsFollowReassign(t) =>
      LET u == Unwrap(reassigned)
          o == u.req.user_id
          g == u.req.new_group_key
          before == DocumentChunks(u.before)
          moved == ChunksOfFile(before, o, u.req.file_id)
          k == before[CHOOSE i \in moved : TRUE].payload["group_key"]
          n == Cardinality(moved)
          st == resp[t].result.value
      IN /\ g \in DOMAIN st.chunks_by_group
         /\ st.chunks_by_group[g] = GroupCount(before, o, g) + n
         /\ IF GroupCount(before, o, k) = n
            THEN k \notin DOMAIN st.chunks_by_group
            ELSE /\ k \in DOMAIN st.chunks_by_group
                 /\ st.chunks_by_group[k] = GroupCount(before, o, k) - n
         /\ st.total_chunks = Cardinality(OwnedBy(before, o))
         /\ st.total_files = Cardinality(FilesOf(before, o))

\* C11 witness: statistics after a reassignment that moved two chunks of one
\* file to another group.
C11_Witness ==
  \E t \in Tasks :
    /\ StatsFollowReassign(t)
    /\ LET u == Unwrap(reassigned)
       IN Cardinality(ChunksOfFile(DocumentChunks(u.before), u.req.user_id,
                                   u.req.file_id)) = 2

\* C12: the value returned by reassignGroupKey is the number of chunks of the
\* owner and file that the call patched, 0 when no chunk matches.
C12_UpdatedCount ==
  \A t \in Tasks :
    (resp[t].op = "update_group_key" /\ resp[t].result.status = "Ok") =>
      resp[t].result.value =
        Cardinality(ChunksOfFile(DocumentChunks(resp[t].before),
                                 resp[t].req.user_id, resp[t].req.file_id))

GroupsOf(points, user_id) ==
  {points[id].payload["group_key"] : id \in OwnedBy(points, user_id)}

StatsOps == {"get_document_stats", "get_group_keys"}

\* C13: with no write during the enumeration, getStats(o) returns
\* totalChunks = the number of o's chunks, totalFiles = the number of their
\* distinct file ids, totalGroups = the number of their distinct group keys
\* and chunksByGroup[g] = the number of o's chunks with group key g, whatever
\* the number of pages; getGroupKeys(o) is the set of those group keys.
C13_StatsAggregates ==
  \A t \in Tasks :
    (resp[t].op \in StatsOps /\ resp[t].result.status = "Ok") =>
      LET o == resp[t].req.user_id
          points == DocumentChunks(resp[t].after)
          v == resp[t].result.value
      IN IF resp[t].op = "get_group_keys"
         THEN v = GroupsOf(points, o)
         ELSE /\ v.total_chunks = Cardinality(OwnedBy(points, o))
              /\ v.total_files = Cardinality(FilesOf(points, o))
              /\ v.total_groups = Cardinality(GroupsOf(points, o))
              /\ DOMAIN v.chunks_by_group = GroupsOf(points, o)
              /\ \A g \in DOMAIN v.chunks_by_group :
                   v.chunks_by_group[g] = GroupCount(points, o, g)

\* C13 witness: statistics of an owner with two chunks of one group, read in
\* more than one page, while the collection holds a chunk of another owner.
C13_Witness ==
  \E t \in Tasks :
    /\ resp[t].op = "get_document_stats" /\ resp[t].result.status = "Ok"
    /\ Len(calls[t]) > 1
    /\ LET o == resp[t].req.user_id
           points == DocumentChunks(resp[t].after)
       IN /\ Cardinality(OwnedBy(points, o)) = 2
          /\ Cardinality(GroupsOf(points, o)) = 1
          /\ DOMAIN points # OwnedBy(points, o)

\* a step of get_document_stats by task t
StatsStep(t) ==
  \/ pc[t] = "stats_page" /\ (pc'[t] # "stats_page" \/ frame'[t] # frame[t])
  \/ /\ pc[t] = "idle"
     /\ \/ pc'[t] = "stats_page"
        \/ pc'[t] = "done" /\ resp'[t].op \in StatsOps

ScrollFails ==
  ~engine_up \/ documents_collection_name \notin DOMAIN engine

\* C14: a step of getStats whose scroll call fails, on the first page or on
\* a later one, ends the request with EngineError: the failed scroll is the
\* last call of the request and no statistics value is returned.
C14_StatsAbort ==
  [][\A t \in Tasks :
       (StatsStep(t) /\ ScrollFails) =>
         /\ pc'[t] = "done"
         /\ resp'[t].result = QdrantError
         /\ calls'[t] = Append(calls[t], "scroll")]_vars

\* C14 witness: getStats answered EngineError after a scroll that followed a
\* page read with success.
C14_Witness ==
  \E t \in Tasks :
    /\ resp[t].op \in StatsOps /\ resp[t].result = QdrantError
    /\ Len(calls[t]) > 1

BulkDeletes == {"delete_by_file", "delete_by_group_key", "delete_all_for_user"}

\* the chunks a bulk delete is to remove, by its request
Targeted(points, op, req) ==
  {id \in OwnedBy(points, req.user_id) :
     /\ op = "delete_by_file" => points[id].payload["file_id"] = req.file_id
     /\ op = "delete_by_group_key" =>
          points[id].payload["group_key"] = req.group_key}

\* C15: deleteByFile(o, f), deleteByGroupKey(o, g) and deleteAllForOwner(o)
\* remove all and only the chunks of owner o with file f, with group key g,
\* or of owner o; every other chunk and every memory collection is left as
\* it was.
C15_BulkDeleteExact ==
  \A t \in Tasks :
    (resp[t].op \in BulkDeletes /\ resp[t].result.status = "Ok") =>
      LET before == DocumentChunks(resp[t].before)
          after == DocumentChunks(resp[t].after)
          gone == Targeted(before, resp[t].op, resp[t].req)
      IN /\ DOMAIN after = DOMAIN before \ gone
         /\ \A id \in DOMAIN after : after[id] = before[id]
         /\ DOMAIN resp[t].after = DOMAIN resp[t].before
         /\ \A c \in DOMAIN resp[t].before \ {documents_collection_name} :
              resp[t].after[c] = resp[t].before[c]

\* C15 witness: a delete by group key removed a chunk while another owner's
\* chunk with the same group key and a memory record were stored.
C15_Witness ==
  \E t \in Tasks :
    /\ resp[t].op = "delete_by_group_key" /\ resp[t].result.status = "Ok"
    /\ LET before == DocumentChunks(resp[t].before)
           req == resp[t].req
       IN /\ Targeted(before, resp[t].op, req) # {}
          /\ \E id \in DOMAIN before \ OwnedBy(before, req.user_id) :
               before[id].payload["group_key"] = req.group_key
          /\ \E c \in DOMAIN resp[t].before \ {documents_collection_name} :
               resp[t].before[c].points # NoPoints

\* the request of task t stored a record and the engine is as it left it
JustStored(t, op) ==
  /\ resp[t].op = op /\ resp[t].result.status = "Ok"
  /\ engine = resp[t].after

\* C16: after upsert stored a memory record (with or without message_id) or
\* a document chunk under a string id, get of that id returns the record
\* equal to the original in every field, and the field _point_id of the
\* stored payload is that string id.
C16_PayloadRoundTrip ==
  \A t \in Tasks :
    /\ JustStored(t, "upsert_memory") =>
         LET req == resp[t].req
             points == MemoryPoints(engine, req.namespace)
             id == string_to_point_id(req.point_id)
         IN /\ GetMemoryResponse(req.point_id,
                                 get_memory(req.point_id, req.namespace))
                 = OkValue([id |-> req.point_id, payload |-> req.payload])
            /\ id \in DOMAIN points
            /\ points[id].payload["_point_id"] = req.point_id
    /\ JustStored(t, "upsert_document") =>
         LET req == resp[t].req
             points == DocumentChunks(engine)
             id == string_to_point_id(req.point_id)
             found == get_document(req.point_id)
         IN /\ found.status = "Ok" /\ IsSome(found.value)
            /\ Unwrap(found.value).id = req.point_id
            /\ Unwrap(found.value).payload = req.payload
            /\ id \in DOMAIN points
            /\ points[id].payload["_point_id"] = req.point_id

\* C16 witness: a memory record without message_id was stored under a string
\* id whose native id held a record stored under another string id.
C16_Witness ==
  \E t \in Tasks :
    /\ JustStored(t, "upsert_memory")
    /\ resp[t].req.payload.message_id = None
    /\ LET before == MemoryPoints(resp[t].before, resp[t].req.namespace)
           id == string_to_point_id(resp[t].req.point_id)
       IN /\ id \in DOMAIN before
          /\ before[id].payload["_point_id"] # resp[t].req.point_id

\* the reference rule: every character is lower-cased, every character that
\* is not alphanumeric becomes one '_', then leading and trailing '_' are
\* trimmed
RECURSIVE ReferenceChars(_)
ReferenceChars(value) ==
  IF value = <<>> THEN <<>>
  ELSE <<IF is_ascii_alphanumeric(Head(value))
         THEN to_ascii_lowercase(Head(value)) ELSE "_">>
       \o ReferenceChars(Tail(value))

ReferenceSanitize(value) == TrimEnd(TrimStart(ReferenceChars(value)))

\* C17: sanitize_namespace equals the reference rule for every namespace:
\* lower-case, every non-alphanumeric character replaced by one '_' and none
\* dropped, leading and trailing '_' trimmed.
C17_SanitizeReference ==
  \A t \in Tasks :
    resp[t].op = "sanitize_namespace" =>
      resp[t].result.value = ReferenceSanitize(resp[t].req.value)

AllowedChars == Digits \cup LowerLetters \cup {"_"}

\* C18: get_collection_name answers for every namespace, with the bare
\* collection name when the namespace is absent or sanitizes to the empty
\* string, and otherwise with the collection name, '_' and a non-empty
\* suffix of characters of [a-z0-9_] that neither begins nor ends with '_'.
C18_CollectionName ==
  \A t \in Tasks :
    resp[t].op = "get_collection_name" =>
      /\ resp[t].result.status = "Ok"
      /\ LET namespace == resp[t].req.namespace
             name == resp[t].result.value
             n == Len(collection_name)
         IN IF namespace = None \/ sanitize_namespace(Unwrap(namespace)) = <<>>
            THEN name = collection_name
            ELSE /\ Len(name) > n + 1
                 /\ SubSeq(name, 1, n) = collection_name
                 /\ name[n + 1] = "_"
                 /\ \A i \in n + 2 .. Len(name) : name[i] \in AllowedChars
                 /\ name[n + 2] # "_" /\ name[Len(name)] # "_"

\* C18 witness: the name of a namespace with an upper-case letter between
\* a leading and a trailing '_'.
C18_Witness ==
  \E t \in Tasks :
    /\ resp[t].op = "get_collection_name"
    /\ resp[t].req.namespace = Some(<<"_", "B", "_">>)
    /\ resp[t].result.value = collection_name \o <<"_", "b">>

\* C19: a memory scroll issues exactly one scroll call to the engine; it
\* returns at most limit records, each with the user_id of the request,
\* active and, when a category is given, of that category.
C19_ScrollOnce ==
  \A t \in Tasks :
    resp[t].op = "scroll_memories" =>
      /\ calls[t] = <<"scroll">>
      /\ resp[t].result.status = "Ok" =>
           LET req == resp[t].req
               memories == resp[t].result.value
           IN /\ req.limit.hi > 0 \/ Len(memories) <= req.limit.lo
              /\ \A i \in 1..Len(memories) :
                   /\ memories[i].payload.user_id = req.user_id
                   /\ memories[i].payload.active
                   /\ IsSome(req.category) =>
                        memories[i].payload.category = Unwrap(req.category)

\* C19 witness: a scroll answered limit records while the collection held
\* more records matching the request.
C19_Witness ==
  \E t \in Tasks :
    /\ resp[t].op = "scroll_memories" /\ resp[t].result.status = "Ok"
    /\ resp[t].req.limit.hi = 0
    /\ Len(resp[t].result.value) = resp[t].req.limit.lo
    /\ LET req == resp[t].req
           points == MemoryPoints(resp[t].before, req.namespace)
       IN Cardinality({id \in DOMAIN points :
                         Matches(points[id].payload,
                                 MemoryFilter(req.user_id, req.category))})
            > req.limit.lo

\* no point stored under the string id of the request
NothingStored(points, point_id) ==
  \/ string_to_point_id(point_id) \notin DOMAIN points
  \/ points[string_to_point_id(point_id)].payload["_point_id"] # point_id

\* C20: a memory delete of a string id that has no stored point in the
\* namespace returns success and leaves the store unchanged (so a second
\* delete of the same id succeeds like the first).
C20_DeleteIdempotent ==
  \A t \in Tasks :
    (/\ resp[t].op = "delete_memory"
     /\ NothingStored(MemoryPoints(resp[t].before, resp[t].req.namespace),
                      resp[t].req.point_id)) =>
      /\ resp[t].result.status = "Ok"
      /\ resp[t].after = resp[t].before

\* the answer of the engine to the call of a read, computed on the engine
\* the read ran on
Answered(r) ==
  LET e == r.before
      req == r.req
  IN IF r.op = "get_memory"
     THEN get_points(e, get_collection_name(req.namespace),
                     string_to_point_id(req.point_id), FALSE)
     ELSE IF r.op = "get_document"
     THEN get_points(e, documents_collection_name,
                     string_to_point_id(req.point_id), TRUE)
     ELSE IF r.op = "search_memories"
     THEN search_points(e, get_collection_name(req.namespace),
                        req.query_vector, req.limit,
                        MemoryFilter(req.user_id, req.category), req.min_score)
     ELSE IF r.op = "scroll_memories"
     THEN scroll(e, get_collection_name(req.namespace),
                 MemoryFilter(req.user_id, req.category), AsU32(req.limit),
                 None)
     ELSE search_points(e, documents_collection_name, req.vector, req.limit,
                        DocumentSearchFilter(req.user_id, req.group_key),
                        req.min_score)

MemoryReads == {"get_memory", "search_memories", "scroll_memories"}
DocumentReads == {"get_document", "search_documents"}

\* the answered points whose payload lacks a field the record of the read
\* requires
Undecodable(r) ==
  LET required == IF r.op \in MemoryReads THEN MemoryRequired
                  ELSE DocumentFields
  IN {i \in 1..Len(Answered(r).result) :
        ~(required \subseteq DOMAIN Answered(r).result[i].payload)}

RECURSIVE SumCounts(_)
SumCounts(f) ==
  IF DOMAIN f = {} THEN 0
  ELSE LET g == CHOOSE x \in DOMAIN f : TRUE
       IN f[g] + SumCounts([x \in DOMAIN f \ {g} |-> f[x]])

\* C21: a stored payload that lacks a required field is always surfaced: a
\* get, search or scroll of memories or documents whose engine answer holds
\* such a point returns an internal error, and the statistics of an owner
\* never leave a counted chunk out of the counts by group.
C21_MalformedSurfaced ==
  \A t \in Tasks :
    /\ (/\ resp[t].op \in MemoryReads \cup DocumentReads
        /\ Answered(resp[t]).ok
        /\ Undecodable(resp[t]) # {}) => resp[t].result = Internal
    /\ (resp[t].op = "get_document_stats" /\ resp[t].result.status = "Ok") =>
         SumCounts(resp[t].result.value.chunks_by_group)
           = resp[t].result.value.total_chunks

\* C21: the reads that decode every answered point do surface the payload
\* without a required field; the statistics are left out here.
C21_DecodingReadsSurface ==
  \A t \in Tasks :
    (/\ resp[t].op \in MemoryReads \cup DocumentReads
     /\ Answered(resp[t]).ok
     /\ Undecodable(resp[t]) # {}) => resp[t].result = Internal

\* the points of the answer whose payload has no _point_id
WithoutPointId(r) ==
  {i \in 1..Len(Answered(r).result) :
     "_point_id" \notin DOMAIN Answered(r).result[i].payload}

\* C22: when the payload of a stored point has no _point_id, memory search,
\* memory scroll and document search report the point under the decimal
\* rendering of its native id and do not fail because of the missing field.
C22_FallbackId ==
  \A t \in Tasks :
    (/\ resp[t].op \in {"search_memories", "scroll_memories",
                        "search_documents"}
     /\ Answered(resp[t]).ok
     /\ Undecodable(resp[t]) = {}) =>
      /\ resp[t].result.status = "Ok"
      /\ \A i \in WithoutPointId(resp[t]) :
           resp[t].result.value[i].id =
             ToString(Answered(resp[t]).result[i].id)

\* a provisioning call of task t that the engine refuses in this step: the
\* list_collections of a request with a vector of the configured dimension,
\* or the create_collection that follows it
ProvisioningFails(t) ==
  \/ /\ pc[t] = "idle" /\ pc'[t] # "idle"
     /\ calls'[t] = <<"list_collections">>
     /\ ~engine_up
  \/ /\ pc[t] = "ensure_create"
     /\ calls'[t] = Append(calls[t], "create_collection")
     /\ ~engine_up \/ frame[t].ens.coll \in DOMAIN engine

\* C23: memory upsert issues upsert_points only after the provisioning of
\* the resolved collection has succeeded (the collection was listed, or was
\* created by this request, and exists); a provisioning call that fails ends
\* the request with the engine error and without an upsert_points call; and
\* a memory upsert that succeeds leaves the collection of its namespace in
\* the engine, holding the point.
C23_UpsertAfterEnsure ==
  [][\A t \in Tasks :
       /\ (calls'[t] # calls[t] /\ calls'[t] # <<>>
           /\ calls'[t][Len(calls'[t])] = "upsert_points") =>
            /\ calls[t] \in {<<"list_collections">>,
                             <<"list_collections", "create_collection">>}
            /\ frame[t].ens.coll \in DOMAIN engine
       /\ ProvisioningFails(t) =>
            /\ pc'[t] = "done" /\ resp'[t].result = QdrantError
            /\ \A i \in 1..Len(calls'[t]) : calls'[t][i] # "upsert_points"
       /\ (/\ pc[t] # "done" /\ pc'[t] = "done"
           /\ resp'[t].op = "upsert_memory"
           /\ resp'[t].result.status = "Ok") =>
            LET req == resp'[t].req
                coll == get_collection_name(req.namespace)
                id == string_to_point_id(req.point_id)
            IN /\ coll \in DOMAIN engine'
               /\ id \in DOMAIN engine'[coll].points
               /\ engine'[coll].points[id] =
                    [vector |-> req.vector,
                     payload |-> MemoryPoint(req.point_id, req.vector,
                                             req.payload).payload]]_vars

\* C23 witness: a memory upsert into the namespace "Fb-1" created the
\* collection and stored the point, and another memory upsert ended with the
\* engine error after its create_collection call.
C23_Witness ==
  \E t, u \in Tasks :
    /\ resp[t].op = "upsert_memory" /\ resp[t].result.status = "Ok"
    /\ resp[t].req.namespace = Feedback
    /\ calls[t] = <<"list_collections", "create_collection", "upsert_points">>
    /\ resp[u].op = "upsert_memory" /\ resp[u].result = QdrantError
    /\ calls[u] = <<"list_collections", "create_collection">>

\* C30: whenever ensure_collection_exists_for_documents has returned Ok (main
\* is serving), the documents collection exists with the field indexes
\* user_id, file_id and group_key, whatever calls came before, an earlier
\* call that failed between create_collection and the last index included.
C30_DocumentsIndexed ==
  Serving =>
    /\ documents_collection_name \in DOMAIN engine
    /\ engine[documents_collection_name].indexes
         = {"user_id", "file_id", "group_key"}

\* the counters after a request with response r, by the rule of claim C24
Counted(r) ==
  IF r.result.status # "Ok" THEN stats
  ELSE IF r.op \in {"upsert_memory", "upsert_document"}
  THEN [stats EXCEPT !.upserts = @ + 1]
  ELSE IF r.op \in {"batch_upsert_memories", "batch_upsert_documents"}
  THEN [stats EXCEPT !.upserts = @ + r.result.success_count]
  ELSE IF r.op \in {"search_memories", "search_documents"}
  THEN [stats EXCEPT !.searches = @ + 1]
  ELSE IF r.op \in {"delete_memory", "delete_document"} \cup BulkDeletes
  THEN [stats EXCEPT !.deletes = @ + 1]
  ELSE stats

\* the step in which the request of task t is answered
Answers(t) == pc[t] # "done" /\ pc'[t] = "done"

\* C24: every store operation that succeeds updates the counters, for
\* memories and documents alike: a single upsert raises upserts by 1, a batch
\* upsert by its success_count, a search raises searches by 1 and a delete
\* deletes by 1; an operation that fails raises no counter.
C24_StatsCounted ==
  [][\A t \in Tasks : Answers(t) => stats' = Counted(resp'[t])]_vars

\* C24: the rule holds for the operations on memories.
C24_MemoryCounted ==
  [][\A t \in Tasks :
       (Answers(t) /\ resp'[t].op \in {"upsert_memory", "batch_upsert_memories",
                                       "search_memories", "delete_memory"})
         => stats' = Counted(resp'[t])]_vars

\* C25: a snapshot of StatsTracker reports, for each of the counters
\* upserts, searches and deletes, the sum of the increments applied to it
\* since the tracker was created or the counter was last reset; a snapshot
\* after a reset with no increment in between reports 0.
C25_SnapshotIsSum ==
  [][(/\ daily.pc \in {"sleep", "get_snapshot"}
      /\ daily'.pc \in {"get_snapshot", "send_daily_stats"}
      /\ daily' # daily) =>
       daily'.snapshot[Counters[daily.i]] = ledger.since[Counters[daily.i]]]_vars

\* C25 witness: a snapshot that reports two upserts and one delete, taken
\* after an earlier snapshot was sent and the counters were reset.
C25_Witness ==
  /\ daily.pc = "send_daily_stats"
  /\ daily.snapshot.upserts = 2 /\ daily.snapshot.deletes = 1
  /\ ledger.reported.upserts > 0
  /\ ledger.since = daily.snapshot

\* C28: no counted operation is lost by the periodic report: whenever
\* daily_stats_task has finished a report and sleeps, every increment of a
\* counter is in a snapshot that was sent or still in the counter for the
\* next one, also the increments made between get_snapshot and reset.
C28_NothingLost ==
  daily.pc = "sleep" =>
    \A k \in DOMAIN stats :
      ledger.counted[k] = ledger.reported[k] + stats[k]

\* what the engine e holds for the string id s1 in the collection of the
\* namespace: the vector and the payload, with the embedded id, that a get
\* of s1 reads
HeldFor(e, namespace, s1) ==
  LET points == MemoryPoints(e, namespace)
  IN IF string_to_point_id(s1) \in DOMAIN points
     THEN Some(points[string_to_point_id(s1)]) ELSE None

\* C27: distinct string ids do not interfere: an upsert or a delete under a
\* string id s2 leaves what get(s1) returns for every other string id s1 of
\* the same collection unchanged (record, vector and embedded id), also when
\* s1 and s2 have the same native id.
C27_NoInterference ==
  \A t \in Tasks :
    (/\ resp[t].op \in {"upsert_memory", "delete_memory"}
     /\ resp[t].result.status = "Ok") =>
      \A s1 \in MemIds \ {resp[t].req.point_id} :
        HeldFor(resp[t].after, resp[t].req.namespace, s1)
          = HeldFor(resp[t].before, resp[t].req.namespace, s1)

\* C29: the pair of counters that health_check reads satisfies
\* requests_failed <= requests_total, so that requests_success =
\* requests_total - requests_failed does not underflow, under every
\* interleaving with requests that pass through track_metrics.
C29_NoUnderflow ==
  \A t \in Tasks :
    resp[t].op = "health_check" =>
      /\ resp[t].result.status = "Ok"
      /\ resp[t].result.value.requests_failed
           <= resp[t].result.value.requests_total

\* the scroll calls that enumerate n chunks: a full page has a cursor while
\* more chunks follow, and the page without a cursor is the last
PagesFor(n) ==
  IF n = 0 THEN 1 ELSE (n + ScrollPageLimit - 1) \div ScrollPageLimit

\* the statistics request of task t is answered; when it is answered with
\* success its calls are the scrolls up to the first page without a cursor
\* or without a result, and no call more
StatsAnswered(t) ==
  /\ pc[t] = "done" /\ resp[t].op \in StatsOps
  /\ resp[t].result.status = "Ok" =>
       /\ \A i \in 1..Len(calls[t]) : calls[t][i] = "scroll"
       /\ Len(calls[t]) =
            PagesFor(Cardinality(OwnedBy(DocumentChunks(resp[t].after),
                                         resp[t].req.user_id)))

\* C26: getStats terminates: a request that is reading pages is eventually
\* answered, and it has then stopped at the first page whose next-page
\* cursor is absent or whose result list is empty, with no scroll call after
\* that page.
C26_StatsTerminates ==
  \A t \in {"t1"} : (pc[t] = "stats_page") ~> StatsAnswered(t)

\* C26 witness: statistics of an owner with two chunks answered after two
\* pages, the second read with a cursor and returned without one.
C26_Witness ==
  \E t \in Tasks :
    /\ resp[t].op \in StatsOps /\ resp[t].result.status = "Ok"
    /\ calls[t] = <<"scroll", "scroll">>
    /\ Cardinality(OwnedBy(DocumentChunks(resp[t].after),
                           resp[t].req.user_id)) = 2

====
